---- MODULE Spec2Model ----
(***************************************************************************)
(* A model of the tree-walking interpreter: the scope chain of             *)
(* environment.rs and the recursive evaluate/execute of interpreter.rs,    *)
(* run as an abstract machine whose stack frames are the suspended Rust    *)
(* calls.                                                                  *)
(***************************************************************************)
EXTENDS Integers, Sequences, FiniteSets, TLC

VARIABLES
    prog,    \* the Vec<Stmt> handed to Interpreter::interpret
    ctl,     \* what the machine does next: a call being entered or a value being returned
    stack,   \* the suspended calls of execute / evaluate / interpret, innermost last
    envs,    \* the heap of Environment objects; an Rc<Environment> is an index into it
    out,     \* the lines written to standard output by println!
    ret,     \* the Result returned by the last direct call of an Environment method
    scanner, \* the Scanner that main builds over the contents of the file
    parser,  \* the Parser that main builds over the tokens
    proc     \* the process of main: the lines of standard error and the exit status

vars == <<prog, ctl, stack, envs, out, ret, scanner, parser, proc>>

(***************************************************************************)
(* Bounds of the model.                                                    *)
(***************************************************************************)
\* the number of Environment objects in the scope-chain specification
MaxScopes == 2
\* the number of Environment objects one run of the interpreter may allocate
MaxEnvs == 24
\* the numbers the example programs are built from are 0..MaxNum
MaxNum == 2
\* the native clock returns one of 0..MaxClock
MaxClock == 1
\* the counter program calls its counters at most MaxCalls times
MaxCalls == 3
MaxArgs == 2
MaxIter == 3
\* the scanned source texts have at most MaxSource chars
MaxSource == 4
\* the files handed to the run command have at most MaxLines lines
MaxLines == 2
\* tokens before Eof in the token sequences handed to the Parser
MaxTokens == 4
\* binary operators in an expression of the expression files
MaxOps == 2

(***************************************************************************)
(* Option, Result and RuntimeError.                                        *)
(***************************************************************************)
None == [t |-> "None"]
Some(v) == [t |-> "Some", v |-> v]
Unit == [t |-> "Unit"]
Ok(v) == [t |-> "Ok", v |-> v]
Err(e) == [t |-> "Err", e |-> e]

\* no Scanner exists: the statements were not read from a file
NoScanner == [t |-> "None"]
\* no Parser has been built
NoParser == [t |-> "None"]
\* the process of main before it exits
Running == [stderr |-> <<>>, exit |-> [t |-> "None"]]

RuntimeError_new(message, line) == [t |-> "Error", message |-> message, line |-> line]
Return(value) == [t |-> "Return", value |-> value]

(***************************************************************************)
(* Tokens: the fields the interpreter reads.                               *)
(***************************************************************************)
Token(token_type, lexeme, line) ==
    [token_type |-> token_type, lexeme |-> lexeme, line |-> line]
Ident(lexeme, line) == Token("Identifier", lexeme, line)

(***************************************************************************)
(* Runtime values.                                                         *)
(***************************************************************************)
\* Value::Number(f64).  The numbers a program of the model computes are
\* quotients of small integers: a number is the fraction n / d in lowest
\* terms with d > 0, and Number(n) is the whole number n.
Number(n) == [t |-> "Number", n |-> n, d |-> 1]

RECURSIVE Gcd(_, _)
Gcd(a, b) == IF b = 0 THEN a ELSE Gcd(b, a % b)

Abs(x) == IF x < 0 THEN 0 - x ELSE x

\* the number p / q, q # 0
Ratio(p, q) ==
    LET g == Gcd(Abs(p), Abs(q))
        sign == IF q < 0 THEN 0 - 1 ELSE 1
    IN  [t |-> "Number", n |-> sign * (p \div g), d |-> sign * (q \div g)]
String(s) == [t |-> "String", s |-> s]
Bool(b) == [t |-> "Bool", b |-> b]
Nil == [t |-> "Nil"]
NativeFunction == [t |-> "NativeFunction"]
Function(name, params, body, closure) ==
    [t |-> "Function", name |-> name, params |-> params, body |-> body,
     closure |-> closure]

(***************************************************************************)
(* Environment: a map from names to Option<Value> and an enclosing scope.  *)
(* NoEnv stands for enclosing = None.                                      *)
(***************************************************************************)
NoEnv == 0
EmptyMap == [n \in {} |-> None]

\* an environment that forgets the scope it was opened in
Environment_detached(enclosing) == [values |-> EmptyMap, enclosing |-> NoEnv]

Environment_new(enclosing) == [values |-> EmptyMap, enclosing |-> enclosing]

insert(values, name, value) == (name :> value) @@ values

UndefinedVariable(name) ==
    RuntimeError_new("Undefined variable '" \o name.lexeme \o "'.", name.line)

assign_local(h, e, name, value) ==
    [envs |-> [h EXCEPT ![e].values = insert(@, name.lexeme, value)],
     res |-> Ok(Unit)]

\* assign returns Result<(), RuntimeError>; envs is the heap after the call
RECURSIVE assign(_, _, _, _)
assign(h, e, name, value) ==
    IF name.lexeme \in DOMAIN h[e].values
    THEN [envs |-> [h EXCEPT ![e].values = insert(@, name.lexeme, value)],
          res |-> Ok(Unit)]
    ELSE IF h[e].enclosing # NoEnv
    THEN assign(h, h[e].enclosing, name, value)
    ELSE [envs |-> h, res |-> Err(UndefinedVariable(name))]

get_local(h, e, name) ==
    IF name.lexeme \in DOMAIN h[e].values
    THEN Ok(h[e].values[name.lexeme])
    ELSE Err(UndefinedVariable(name))

\* get returns Result<Option<Value>, RuntimeError>
RECURSIVE get(_, _, _)
get(h, e, name) ==
    IF name.lexeme \in DOMAIN h[e].values
    THEN Ok(h[e].values[name.lexeme])
    ELSE IF h[e].enclosing # NoEnv
    THEN get(h, h[e].enclosing, name)
    ELSE Err(UndefinedVariable(name))

define_searching(h, e, name, value) ==
    IF get(h, e, Ident(name, 0)).t = "Ok"
    THEN assign(h, e, Ident(name, 0), value).envs
    ELSE [h EXCEPT ![e].values = insert(@, name, value)]

\* define returns (): the result is the heap after the call
define(h, e, name, value) == [h EXCEPT ![e].values = insert(@, name, value)]

define_natives(h, e) == define(h, e, "clock", Some(NativeFunction))

\* Interpreter::new: the global environment, with the native bindings
Global == 1
NewHeap == define_natives(<<Environment_new(NoEnv)>>, Global)

(***************************************************************************)
(* The syntax trees of parser/expr.rs and parser/stmt.rs, with the Call    *)
(* expression that Interpreter::evaluate matches.                          *)
(***************************************************************************)
\* Literal::Number(f64): the whole number n, or the fraction n / d
Literal_Number(n) == [t |-> "Number", n |-> n, d |-> 1]
Literal_String(s) == [t |-> "String", s |-> s]
Literal_Bool(b) == [t |-> "Bool", b |-> b]
Literal_Nil == [t |-> "Nil"]

Expr_Literal(lit) == [t |-> "Literal", lit |-> lit]
Expr_Unary(op, expr) == [t |-> "Unary", op |-> op, expr |-> expr]
Expr_Binary(left, op, right) == [t |-> "Binary", left |-> left, op |-> op, right |-> right]
Expr_Grouping(expr) == [t |-> "Grouping", expr |-> expr]
Expr_Variable(name) == [t |-> "Variable", name |-> name]
Expr_Assign(name, expr) == [t |-> "Assign", name |-> name, expr |-> expr]
Expr_Logical(left, op, right) == [t |-> "Logical", left |-> left, op |-> op, right |-> right]
Expr_Call(callee, paren, arguments) ==
    [t |-> "Call", callee |-> callee, paren |-> paren, arguments |-> arguments]

Stmt_Expression(expr) == [t |-> "Expression", expr |-> expr]
Stmt_Print(expr) == [t |-> "Print", expr |-> expr]
Stmt_Var(name, initializer) == [t |-> "Var", name |-> name, initializer |-> initializer]
Stmt_Block(stmts) == [t |-> "Block", stmts |-> stmts]
Stmt_If(condition, then_branch, else_branch) ==
    [t |-> "If", condition |-> condition, then_branch |-> then_branch,
     else_branch |-> else_branch]
Stmt_While(condition, body) == [t |-> "While", condition |-> condition, body |-> body]
Stmt_For(initializer, condition, increment, body) ==
    [t |-> "For", initializer |-> initializer, condition |-> condition,
     increment |-> increment, body |-> body]
Stmt_Function(name, params, body) ==
    [t |-> "Function", name |-> name, params |-> params, body |-> body]
Stmt_Return(expr) == [t |-> "Return", expr |-> expr]

(***************************************************************************)
(* The helpers of Interpreter::evaluate.                                   *)
(***************************************************************************)
is_truthy(val) ==
    CASE val.t = "Bool" -> val.b
      [] val.t = "Nil" -> FALSE
      [] OTHER -> TRUE

is_number(val) == val.t = "Number"
is_string(val) == val.t = "String"

\* impl Display for Value
\* the decimal digits of r / d, 0 <= r < d, at most k of them
RECURSIVE Fraction(_, _, _)
Fraction(r, d, k) ==
    IF r = 0 \/ k = 0 THEN ""
    ELSE ToString((10 * r) \div d) \o Fraction((10 * r) % d, d, k - 1)

\* impl Display for Value; write!(f, "{}", n) prints a whole f64 without a
\* fraction part and any other with its decimal digits
Display(val) ==
    CASE val.t = "Number" ->
            IF val.d = 1 THEN ToString(val.n)
            ELSE (IF val.n < 0 THEN "-" ELSE "") \o ToString(Abs(val.n) \div val.d)
                    \o "." \o Fraction(Abs(val.n) % val.d, val.d, 16)
      [] val.t = "String" -> val.s
      [] val.t = "Bool" -> IF val.b THEN "true" ELSE "false"
      [] val.t = "Nil" -> "nil"
      [] val.t = "NativeFunction" -> "<fn>"
      [] val.t = "Function" -> "<fn " \o val.name \o ">"

\* the match on Literal of Expr::Literal
\* impl Display for RuntimeError
RuntimeError_fmt(error) ==
    CASE error.t = "Error" -> "[line " \o ToString(error.line) \o "] Error: " \o error.message
      [] error.t = "Return" -> "Return " \o Display(error.value)

literal_value(lit) ==
    CASE lit.t = "Number" -> Ratio(lit.n, lit.d)
      [] lit.t = "String" -> String(lit.s)
      [] lit.t = "Bool" -> Bool(lit.b)
      [] lit.t = "Nil" -> Nil

\* compare_values with the closure of the operator passed in
compare_values(left, right, op) ==
    IF left.t = "Number" /\ right.t = "Number"
    THEN Ok(Bool(CASE op = "Greater" -> left.n * right.d > right.n * left.d
                   [] op = "GreaterEqual" -> left.n * right.d >= right.n * left.d
                   [] op = "Less" -> left.n * right.d < right.n * left.d
                   [] op = "LessEqual" -> left.n * right.d <= right.n * left.d))
    ELSE Err(RuntimeError_new("Operands must be numbers.", 0))

compare_equality(left, right) ==
    CASE left.t = "Number" /\ right.t = "Number" -> left.n = right.n /\ left.d = right.d
      [] left.t = "String" /\ right.t = "String" -> left.s = right.s
      [] left.t = "Bool" /\ right.t = "Bool" -> left.b = right.b
      [] left.t = "Nil" /\ right.t = "Nil" -> TRUE
      [] OTHER -> FALSE

\* the match on op.token_type of Expr::Unary, once the operand is a value
unary(op, right) ==
    CASE op.token_type = "Minus" ->
            IF right.t = "Number"
            THEN Ok(Ratio(0 - right.n, right.d))
            ELSE Err(RuntimeError_new("Invalid operand for unary operator", op.line))
      [] op.token_type = "Bang" -> Ok(Bool(~is_truthy(right)))
      [] OTHER -> Ok(String("Not implemented"))

\* the match on op.token_type of Expr::Binary, once both operands are values
dividend_is_zero(left, right) == left.n = 0

\* let right_number = self.get_number(&right); right_number == 0.0
divides_by_zero(left, right) == right.n = 0

binary(left, op, right) ==
    CASE op.token_type = "Plus" ->
            IF is_number(left) /\ is_number(right)
            THEN Ok(Ratio(left.n * right.d + right.n * left.d, left.d * right.d))
            ELSE IF is_string(left) /\ is_string(right)
            THEN Ok(String(left.s \o right.s))
            ELSE Err(RuntimeError_new(
                        "Operands must be two numbers or two strings.", op.line))
      [] op.token_type = "Minus" ->
            IF is_number(left) /\ is_number(right)
            THEN Ok(Ratio(left.n * right.d - right.n * left.d, left.d * right.d))
            ELSE Err(RuntimeError_new("Operands must be numbers.", op.line))
      [] op.token_type = "Star" ->
            IF is_number(left) /\ is_number(right)
            THEN Ok(Ratio(left.n * right.n, left.d * right.d))
            ELSE Err(RuntimeError_new("Operands must be numbers.", op.line))
      [] op.token_type = "Slash" ->
            IF is_number(left) /\ is_number(right)
            THEN IF divides_by_zero(left, right)
                 THEN Err(RuntimeError_new("Division by zero.", op.line))
                 ELSE Ok(Ratio(left.n * right.d, left.d * right.n))
            ELSE Err(RuntimeError_new("Operands must be numbers.", op.line))
      [] op.token_type \in {"Greater", "GreaterEqual", "Less", "LessEqual"} ->
            compare_values(left, right, op.token_type)
      [] op.token_type = "EqualEqual" -> Ok(Bool(compare_equality(left, right)))
      [] op.token_type = "BangEqual" -> Ok(Bool(~compare_equality(left, right)))
      [] OTHER -> Err(RuntimeError_new("Unimplemented", op.line))

(***************************************************************************)
(* The scope chain on its own: any caller holding Rc<Environment>s may     *)
(* create a child scope of a scope it holds and call define, assign and    *)
(* get on it.  ret records the call and what it returned.                  *)
(***************************************************************************)
EnvTokens == {Ident("a", 1), Ident("b", 2)}
EnvNames == {tk.lexeme : tk \in EnvTokens}
EnvValues == {None, Some(Number(1))}

Idle == [tag |-> "idle"]

EnvInit ==
    /\ prog = <<>>
    /\ ctl = Idle
    /\ stack = <<>>
    /\ out = <<>>
    /\ envs = NewHeap
    /\ ret = [op |-> "new", env |-> Global]
    /\ scanner = NoScanner
    /\ parser = NoParser
    /\ proc = Running

EnvNew(parent) ==
    /\ ctl = Idle
    /\ Len(envs) < MaxScopes
    /\ envs' = Append(envs, Environment_new(parent))
    /\ ret' = [op |-> "new", env |-> Len(envs) + 1]
    /\ UNCHANGED <<parser, scanner, proc, prog, ctl, stack, out>>

EnvDefine(e, name, value) ==
    /\ ctl = Idle
    /\ envs' = define(envs, e, name, value)
    /\ ret' = [op |-> "define", env |-> e, name |-> name, res |-> Unit]
    /\ UNCHANGED <<parser, scanner, proc, prog, ctl, stack, out>>

EnvAssign(e, name, value) ==
    /\ ctl = Idle
    /\ LET r == assign(envs, e, name, value)
       IN  /\ envs' = r.envs
           /\ ret' = [op |-> "assign", env |-> e, name |-> name.lexeme, res |-> r.res]
    /\ UNCHANGED <<parser, scanner, proc, prog, ctl, stack, out>>

EnvGet(e, name) ==
    /\ ctl = Idle
    /\ ret' = [op |-> "get", env |-> e, name |-> name.lexeme, res |-> get(envs, e, name)]
    /\ UNCHANGED <<parser, scanner, proc, prog, ctl, stack, out, envs>>

EnvNext ==
    \/ \E parent \in DOMAIN envs : EnvNew(parent)
    \/ \E e \in DOMAIN envs, name \in EnvNames, value \in EnvValues :
          EnvDefine(e, name, value)
    \/ \E e \in DOMAIN envs, name \in EnvTokens, value \in EnvValues :
          EnvAssign(e, name, value)
    \/ \E e \in DOMAIN envs, name \in EnvTokens : EnvGet(e, name)

EnvSpec == EnvInit /\ [][EnvNext]_vars

(***************************************************************************)
(* What the scope chain is required to do, stated on the chain itself.     *)
(***************************************************************************)
\* the scopes searched from scope e: e, its enclosing scope, and so on outward
RECURSIVE Chain(_, _)
Chain(h, e) ==
    IF h[e].enclosing = NoEnv THEN <<e>> ELSE <<e>> \o Chain(h, h[e].enclosing)

\* the positions in Chain(h, e) of the scopes that define name n
Definers(h, e, n) ==
    {i \in DOMAIN Chain(h, e) : n \in DOMAIN h[Chain(h, e)[i]].values}

\* the innermost scope of the chain of e that defines n
Innermost(h, e, n) ==
    Chain(h, e)[CHOOSE i \in Definers(h, e, n) : \A j \in Definers(h, e, n) : i <= j]

\* the binding of n in scope e alone: unbound, or bound to an Option<Value>
Binding(h, e, n) ==
    IF n \in DOMAIN h[e].values
    THEN [bound |-> TRUE, value |-> h[e].values[n]]
    ELSE [bound |-> FALSE]

\* heaps h1 and h2 hold the same scopes and differ at most in the binding of n in d
SameExcept(h1, h2, d, n) ==
    /\ DOMAIN h1 = DOMAIN h2
    /\ \A i \in DOMAIN h1 :
          /\ h1[i].enclosing = h2[i].enclosing
          /\ \A m \in DOMAIN h1[i].values \cup DOMAIN h2[i].values :
                (i # d \/ m # n) => Binding(h1, i, m) = Binding(h2, i, m)

\* C7: assign(name, value) rebinds the name in the innermost scope of the
\* chain that already defines it and changes nothing else; when no scope of
\* the chain defines the name it returns the undefined-variable error and no
\* scope changes, so no binding is ever created by assign.
C7_AssignInnermostOnly ==
    [][\A e \in DOMAIN envs, name \in EnvTokens, value \in EnvValues :
          EnvAssign(e, name, value) =>
             IF Definers(envs, e, name.lexeme) = {}
             THEN /\ ret'.res.t = "Err"
                  /\ ret'.res.e.t = "Error"
                  /\ ret'.res.e.line = name.line
                  /\ envs' = envs
             ELSE LET d == Innermost(envs, e, name.lexeme)
                  IN  /\ ret'.res = Ok(Unit)
                      /\ Binding(envs', d, name.lexeme) = [bound |-> TRUE, value |-> value]
                      /\ SameExcept(envs, envs', d, name.lexeme)]_vars

\* an assign from a scope that defines the name and whose enclosing scope
\* defines it too has rebound the inner binding and left the outer one alone
C7_Witness ==
    /\ ret.op = "assign"
    /\ ret.res = Ok(Unit)
    /\ Definers(envs, ret.env, ret.name) = {1, 2}
    /\ envs[Chain(envs, ret.env)[1]].values[ret.name] = Some(Number(1))
    /\ envs[Chain(envs, ret.env)[2]].values[ret.name] = None

\* C8: get(name) returns the binding of the innermost scope of the chain that
\* defines the name, fails with the undefined-variable error only when no
\* scope of the chain defines it, and changes no scope.
C8_GetInnermost ==
    [][\A e \in DOMAIN envs, name \in EnvTokens :
          EnvGet(e, name) =>
             /\ envs' = envs
             /\ IF Definers(envs, e, name.lexeme) = {}
                THEN /\ ret'.res.t = "Err"
                     /\ ret'.res.e.t = "Error"
                     /\ ret'.res.e.line = name.line
                ELSE ret'.res =
                       Ok(envs[Innermost(envs, e, name.lexeme)].values[name.lexeme])]_vars

\* a get from a scope that does not define the name has walked outward and
\* returned the binding of the enclosing scope
C8_Witness ==
    /\ ret.op = "get"
    /\ ret.res = Ok(Some(Number(1)))
    /\ Definers(envs, ret.env, ret.name) = {2}
    /\ envs[Chain(envs, ret.env)[2]].values[ret.name] = Some(Number(1))

\* C9: define(name, value) binds the name in the scope it is called on,
\* inserting or overwriting, leaves every other scope and name unchanged
\* (also an enclosing scope that binds the same name), and returns ().
C9_DefineLocalOnly ==
    [][\A e \in DOMAIN envs, name \in EnvNames, value \in EnvValues :
          EnvDefine(e, name, value) =>
             /\ ret'.res = Unit
             /\ Binding(envs', e, name) = [bound |-> TRUE, value |-> value]
             /\ SameExcept(envs, envs', e, name)]_vars

\* a define has bound a name that the enclosing scope binds to another value
C9_Witness ==
    /\ ret.op = "define"
    /\ envs[ret.env].enclosing # NoEnv
    /\ envs[ret.env].values[ret.name] = Some(Number(1))
    /\ Binding(envs, envs[ret.env].enclosing, ret.name) = [bound |-> TRUE, value |-> None]

(***************************************************************************)
(* The interpreter as a machine.  ctl is the call being entered            *)
(* (execute or evaluate, with its arguments) or the Result being returned  *)
(* to the innermost suspended call; every frame of stack is a call of      *)
(* interpret, execute, execute_block or evaluate waiting for that Result,  *)
(* with the locals it still needs.                                         *)
(***************************************************************************)
Start == [tag |-> "start"]
Exec(stmt, env) == [tag |-> "execute", stmt |-> stmt, env |-> env]
Eval(expr, env) == [tag |-> "evaluate", expr |-> expr, env |-> env]
Result(res) == [tag |-> "result", res |-> res]
Finished(res) == [tag |-> "finished", res |-> res]
Panicked == [tag |-> "panic"]

Top == stack[Len(stack)]
Rest == SubSeq(stack, 1, Len(stack) - 1)

Executing(t) == ctl.tag = "execute" /\ ctl.stmt.t = t
Evaluating(t) == ctl.tag = "evaluate" /\ ctl.expr.t = t
\* the call suspended at k is handed Ok(...)
ReturnedOk(k) == ctl.tag = "result" /\ ctl.res.t = "Ok" /\ Top.k = k
\* the call suspended at k is handed Err(...)
ReturnedErr(k) == ctl.tag = "result" /\ ctl.res.t = "Err" /\ Top.k = k

\* the for loop of interpret, from statement i + 1 on
interpret_loop(i) ==
    IF i < Len(prog)
    THEN /\ ctl' = Exec(prog[i + 1], Global)
         /\ stack' = <<[k |-> "interpret", i |-> i + 1]>>
    ELSE /\ ctl' = Finished(Ok(Unit))
         /\ stack' = <<>>

\* the for loop of execute_block, from statement i + 1 on, below the frames stk
block_loop(stmts, i, env, stk) ==
    IF i < Len(stmts)
    THEN /\ ctl' = Exec(stmts[i + 1], env)
         /\ stack' = Append(stk, [k |-> "Block", stmts |-> stmts, i |-> i + 1, env |-> env])
    ELSE /\ ctl' = Result(Ok(Unit))
         /\ stack' = stk

no_scope(h, env) == [envs |-> h, env |-> env]

\* let env = Rc::new(Environment::new(Some(Rc::clone(env)))) of execute_block
block_scope(h, env) == [envs |-> Append(h, Environment_new(env)), env |-> Len(h) + 1]

\* execute_block(stmts, env) on the heap h, entered below the frames stk
execute_block(h, stmts, env, stk) ==
    /\ Len(h) < MaxEnvs
    /\ LET s == block_scope(h, env)
       IN  /\ envs' = s.envs
           /\ block_loop(stmts, 0, s.env, stk)

(***************************************************************************)
(* Interpreter::interpret.                                                 *)
(***************************************************************************)
InterpretStart ==
    /\ ctl = Start
    /\ interpret_loop(0)
    /\ UNCHANGED <<parser, scanner, proc, prog, envs, out, ret>>

InterpretNext ==
    /\ ReturnedOk("interpret")
    /\ interpret_loop(Top.i)
    /\ UNCHANGED <<parser, scanner, proc, prog, envs, out, ret>>

InterpretErr ==
    /\ ReturnedErr("interpret")
    /\ ctl' = Finished(ctl.res)
    /\ stack' = <<>>
    /\ UNCHANGED <<parser, scanner, proc, prog, envs, out, ret>>

(***************************************************************************)
(* Interpreter::execute, one action per arm of the match on the statement  *)
(* and one per point where a nested call returns.                          *)
(***************************************************************************)
ExecPrint ==
    /\ Executing("Print")
    /\ ctl' = Eval(ctl.stmt.expr, ctl.env)
    /\ stack' = Append(stack, [k |-> "Print"])
    /\ UNCHANGED <<parser, scanner, proc, prog, envs, out, ret>>

PrintValue ==
    /\ ReturnedOk("Print")
    /\ out' = Append(out, Display(ctl.res.v))
    /\ ctl' = Result(Ok(Unit))
    /\ stack' = Rest
    /\ UNCHANGED <<parser, scanner, proc, prog, envs, ret>>

ExecExpression ==
    /\ Executing("Expression")
    /\ ctl' = Eval(ctl.stmt.expr, ctl.env)
    /\ stack' = Append(stack, [k |-> "Expression"])
    /\ UNCHANGED <<parser, scanner, proc, prog, envs, out, ret>>

ExpressionValue ==
    /\ ReturnedOk("Expression")
    /\ ctl' = Result(Ok(Unit))
    /\ stack' = Rest
    /\ UNCHANGED <<parser, scanner, proc, prog, envs, out, ret>>

\* a declaration without initializer that leaves the variable without value
ExecVar_unset ==
    /\ Executing("Var")
    /\ IF ctl.stmt.initializer.t = "Some"
       THEN /\ ctl' = Eval(ctl.stmt.initializer.v, ctl.env)
            /\ stack' = Append(stack, [k |-> "Var", name |-> ctl.stmt.name, env |-> ctl.env])
            /\ UNCHANGED envs
       ELSE /\ envs' = define(envs, ctl.env, ctl.stmt.name.lexeme, None)
            /\ ctl' = Result(Ok(Unit))
            /\ UNCHANGED stack
    /\ UNCHANGED <<parser, scanner, proc, prog, out, ret>>

ExecVar ==
    /\ Executing("Var")
    /\ IF ctl.stmt.initializer.t = "Some"
       THEN /\ ctl' = Eval(ctl.stmt.initializer.v, ctl.env)
            /\ stack' = Append(stack, [k |-> "Var", name |-> ctl.stmt.name, env |-> ctl.env])
            /\ UNCHANGED envs
       ELSE /\ envs' = define(envs, ctl.env, ctl.stmt.name.lexeme, Some(Nil))
            /\ ctl' = Result(Ok(Unit))
            /\ UNCHANGED stack
    /\ UNCHANGED <<parser, scanner, proc, prog, out, ret>>

VarValue ==
    /\ ReturnedOk("Var")
    /\ envs' = define(envs, Top.env, Top.name.lexeme, Some(ctl.res.v))
    /\ ctl' = Result(Ok(Unit))
    /\ stack' = Rest
    /\ UNCHANGED <<parser, scanner, proc, prog, out, ret>>

ExecBlock ==
    /\ Executing("Block")
    /\ execute_block(envs, ctl.stmt.stmts, ctl.env, stack)
    /\ UNCHANGED <<parser, scanner, proc, prog, out, ret>>

BlockNext ==
    /\ ReturnedOk("Block")
    /\ block_loop(Top.stmts, Top.i, Top.env, Rest)
    /\ UNCHANGED <<parser, scanner, proc, prog, envs, out, ret>>

ExecIf ==
    /\ Executing("If")
    /\ ctl' = Eval(ctl.stmt.condition, ctl.env)
    /\ stack' = Append(stack, [k |-> "If", stmt |-> ctl.stmt, env |-> ctl.env])
    /\ UNCHANGED <<parser, scanner, proc, prog, envs, out, ret>>

IfCondition ==
    /\ ReturnedOk("If")
    /\ ctl' = IF is_truthy(ctl.res.v)
              THEN Exec(Top.stmt.then_branch, Top.env)
              ELSE IF Top.stmt.else_branch.t = "Some"
              THEN Exec(Top.stmt.else_branch.v, Top.env)
              ELSE Result(Ok(Unit))
    /\ stack' = Rest
    /\ UNCHANGED <<parser, scanner, proc, prog, envs, out, ret>>

ExecWhile ==
    /\ Executing("While")
    /\ ctl' = Eval(ctl.stmt.condition, ctl.env)
    /\ stack' = Append(stack, [k |-> "WhileCondition", stmt |-> ctl.stmt, env |-> ctl.env])
    /\ UNCHANGED <<parser, scanner, proc, prog, envs, out, ret>>

WhileCondition ==
    /\ ReturnedOk("WhileCondition")
    /\ IF is_truthy(ctl.res.v)
       THEN /\ ctl' = Exec(Top.stmt.body, Top.env)
            /\ stack' = Append(Rest, [Top EXCEPT !.k = "WhileBody"])
       ELSE /\ ctl' = Result(Ok(Unit))
            /\ stack' = Rest
    /\ UNCHANGED <<parser, scanner, proc, prog, envs, out, ret>>

WhileBody ==
    /\ ReturnedOk("WhileBody")
    /\ ctl' = Eval(Top.stmt.condition, Top.env)
    /\ stack' = Append(Rest, [Top EXCEPT !.k = "WhileCondition"])
    /\ UNCHANGED <<parser, scanner, proc, prog, envs, out, ret>>

\* the match on condition of Stmt::For, below the frames stk
for_body_first(stmt, env, stk) ==
    /\ ctl' = Exec(stmt.body, env)
    /\ stack' = IF stmt.condition.t = "Some"
                THEN Append(stk, [k |-> "ForBody", stmt |-> stmt, env |-> env])
                ELSE stk

\* match condition, entered once the initializer is done
for_condition(stmt, env, stk) ==
    IF stmt.condition.t = "Some"
    THEN /\ ctl' = Eval(stmt.condition.v, env)
         /\ stack' = Append(stk, [k |-> "ForCondition", stmt |-> stmt, env |-> env])
    ELSE /\ ctl' = Exec(stmt.body, env)
         /\ stack' = stk

\* a for statement that opens a scope of its own for its clauses and body
ExecFor_scoped ==
    /\ Executing("For")
    /\ LET h == Append(envs, Environment_new(ctl.env))
       IN  IF ctl.stmt.initializer.t = "Some"
           THEN /\ envs' = h
                /\ ctl' = Exec(ctl.stmt.initializer.v, Len(h))
                /\ stack' = Append(stack, [k |-> "ForInitializer", stmt |-> ctl.stmt,
                                           env |-> Len(h)])
           ELSE /\ UNCHANGED envs
                /\ for_condition(ctl.stmt, ctl.env, stack)
    /\ UNCHANGED <<parser, scanner, proc, prog, out, ret>>

ExecFor ==
    /\ Executing("For")
    /\ IF ctl.stmt.initializer.t = "Some"
       THEN /\ ctl' = Exec(ctl.stmt.initializer.v, ctl.env)
            /\ stack' = Append(stack, [k |-> "ForInitializer", stmt |-> ctl.stmt,
                                       env |-> ctl.env])
       ELSE for_condition(ctl.stmt, ctl.env, stack)
    /\ UNCHANGED <<parser, scanner, proc, prog, envs, out, ret>>

ForInitializer ==
    /\ ReturnedOk("ForInitializer")
    /\ for_condition(Top.stmt, Top.env, Rest)
    /\ UNCHANGED <<parser, scanner, proc, prog, envs, out, ret>>

ForCondition ==
    /\ ReturnedOk("ForCondition")
    /\ IF is_truthy(ctl.res.v)
       THEN /\ ctl' = Exec(Top.stmt.body, Top.env)
            /\ stack' = Append(Rest, [Top EXCEPT !.k = "ForBody"])
       ELSE /\ ctl' = Result(Ok(Unit))
            /\ stack' = Rest
    /\ UNCHANGED <<parser, scanner, proc, prog, envs, out, ret>>

ForBody ==
    /\ ReturnedOk("ForBody")
    /\ IF Top.stmt.increment.t = "Some"
       THEN /\ ctl' = Eval(Top.stmt.increment.v, Top.env)
            /\ stack' = Append(Rest, [Top EXCEPT !.k = "ForIncrement"])
       ELSE /\ ctl' = Eval(Top.stmt.condition.v, Top.env)
            /\ stack' = Append(Rest, [Top EXCEPT !.k = "ForCondition"])
    /\ UNCHANGED <<parser, scanner, proc, prog, envs, out, ret>>

ForIncrement ==
    /\ ReturnedOk("ForIncrement")
    /\ ctl' = Eval(Top.stmt.condition.v, Top.env)
    /\ stack' = Append(Rest, [Top EXCEPT !.k = "ForCondition"])
    /\ UNCHANGED <<parser, scanner, proc, prog, envs, out, ret>>

ExecFunction ==
    /\ Executing("Function")
    /\ envs' = define(envs, ctl.env, ctl.stmt.name.lexeme,
                      Some(Function(ctl.stmt.name.lexeme, ctl.stmt.params,
                                    ctl.stmt.body, ctl.env)))
    /\ ctl' = Result(Ok(Unit))
    /\ UNCHANGED <<parser, scanner, proc, prog, stack, out, ret>>

ExecReturn ==
    /\ Executing("Return")
    /\ IF ctl.stmt.expr.t = "Some"
       THEN /\ ctl' = Eval(ctl.stmt.expr.v, ctl.env)
            /\ stack' = Append(stack, [k |-> "Return"])
       ELSE /\ ctl' = Result(Err(Return(Nil)))
            /\ UNCHANGED stack
    /\ UNCHANGED <<parser, scanner, proc, prog, envs, out, ret>>

ReturnValue ==
    /\ ReturnedOk("Return")
    /\ ctl' = Result(Err(Return(ctl.res.v)))
    /\ stack' = Rest
    /\ UNCHANGED <<parser, scanner, proc, prog, envs, out, ret>>

(***************************************************************************)
(* Interpreter::evaluate, one action per arm of the match on the           *)
(* expression and one per point where a nested call returns.               *)
(***************************************************************************)
EvalLiteral ==
    /\ Evaluating("Literal")
    /\ ctl' = Result(Ok(literal_value(ctl.expr.lit)))
    /\ UNCHANGED <<parser, scanner, proc, prog, stack, envs, out, ret>>

EvalGrouping ==
    /\ Evaluating("Grouping")
    /\ ctl' = Eval(ctl.expr.expr, ctl.env)
    /\ UNCHANGED <<parser, scanner, proc, prog, stack, envs, out, ret>>

EvalUnary ==
    /\ Evaluating("Unary")
    /\ ctl' = Eval(ctl.expr.expr, ctl.env)
    /\ stack' = Append(stack, [k |-> "Unary", op |-> ctl.expr.op])
    /\ UNCHANGED <<parser, scanner, proc, prog, envs, out, ret>>

UnaryRight ==
    /\ ReturnedOk("Unary")
    /\ ctl' = Result(unary(Top.op, ctl.res.v))
    /\ stack' = Rest
    /\ UNCHANGED <<parser, scanner, proc, prog, envs, out, ret>>

EvalBinary ==
    /\ Evaluating("Binary")
    /\ ctl' = Eval(ctl.expr.left, ctl.env)
    /\ stack' = Append(stack, [k |-> "BinaryLeft", expr |-> ctl.expr, env |-> ctl.env])
    /\ UNCHANGED <<parser, scanner, proc, prog, envs, out, ret>>

BinaryLeft ==
    /\ ReturnedOk("BinaryLeft")
    /\ ctl' = Eval(Top.expr.right, Top.env)
    /\ stack' = Append(Rest, [k |-> "BinaryRight", op |-> Top.expr.op, left |-> ctl.res.v])
    /\ UNCHANGED <<parser, scanner, proc, prog, envs, out, ret>>

BinaryRight ==
    /\ ReturnedOk("BinaryRight")
    /\ ctl' = Result(binary(Top.left, Top.op, ctl.res.v))
    /\ stack' = Rest
    /\ UNCHANGED <<parser, scanner, proc, prog, envs, out, ret>>

\* Ok(env.get(name)?.unwrap()): the unwrap of a None binding panics
EvalVariable ==
    /\ Evaluating("Variable")
    /\ LET r == get(envs, ctl.env, ctl.expr.name)
       IN  IF r.t = "Err"
           THEN ctl' = Result(r) /\ UNCHANGED stack
           ELSE IF r.v.t = "None"
           THEN ctl' = Panicked /\ stack' = <<>>
           ELSE ctl' = Result(Ok(r.v.v)) /\ UNCHANGED stack
    /\ UNCHANGED <<parser, scanner, proc, prog, envs, out, ret>>

EvalAssign ==
    /\ Evaluating("Assign")
    /\ ctl' = Eval(ctl.expr.expr, ctl.env)
    /\ stack' = Append(stack, [k |-> "Assign", name |-> ctl.expr.name, env |-> ctl.env])
    /\ UNCHANGED <<parser, scanner, proc, prog, envs, out, ret>>

AssignValue ==
    /\ ReturnedOk("Assign")
    /\ LET r == assign(envs, Top.env, Top.name, Some(ctl.res.v))
       IN  /\ envs' = r.envs
           /\ ctl' = IF r.res.t = "Ok" THEN Result(Ok(ctl.res.v)) ELSE Result(r.res)
    /\ stack' = Rest
    /\ UNCHANGED <<parser, scanner, proc, prog, out, ret>>

EvalLogical ==
    /\ Evaluating("Logical")
    /\ ctl' = Eval(ctl.expr.left, ctl.env)
    /\ stack' = Append(stack, [k |-> "Logical", expr |-> ctl.expr, env |-> ctl.env])
    /\ UNCHANGED <<parser, scanner, proc, prog, envs, out, ret>>

always_right(op, left_expr) == FALSE

\* the tests that make Expr::Logical return left_expr without evaluating right
returns_left(op, left_expr) ==
    CASE op.token_type = "Or" -> is_truthy(left_expr)
      [] op.token_type = "And" -> ~is_truthy(left_expr)
      [] OTHER -> FALSE

LogicalLeft ==
    /\ ReturnedOk("Logical")
    /\ ctl' = IF Top.expr.op.token_type \notin {"Or", "And"}
              THEN Result(Err(RuntimeError_new("Not implemented", Top.expr.op.line)))
              ELSE IF returns_left(Top.expr.op, ctl.res.v)
              THEN Result(Ok(ctl.res.v))
              ELSE Eval(Top.expr.right, Top.env)
    /\ stack' = Rest
    /\ UNCHANGED <<parser, scanner, proc, prog, envs, out, ret>>

EvalCall ==
    /\ Evaluating("Call")
    /\ ctl' = Eval(ctl.expr.callee, ctl.env)
    /\ stack' = Append(stack, [k |-> "Callee", expr |-> ctl.expr, env |-> ctl.env])
    /\ UNCHANGED <<parser, scanner, proc, prog, envs, out, ret>>

arity_too_few(params, arguments) == Len(arguments) < Len(params)

\* if arguments.len() != params.len()
arity_mismatch(params, arguments) == Len(arguments) # Len(params)

ArityError(params, arguments, paren) ==
    RuntimeError_new("Expected " \o ToString(Len(params)) \o " arguments but got "
                        \o ToString(Len(arguments)) \o ". ", paren.line)

dynamic_scope(h, closure, env) ==
    [envs |-> Append(h, Environment_new(env)), env |-> Len(h) + 1]

\* let func_env = Rc::new(Environment::new(Some(closure.clone()))), in a call
\* made from env
function_scope(h, closure, env) ==
    [envs |-> Append(h, Environment_new(closure)), env |-> Len(h) + 1]

argument_in_callee(func_env, env) == func_env

\* the environment of self.evaluate(arg, &env) in the argument loop of a call
\* made from env with the parameter scope func_env
argument_env(func_env, env) == env

\* the loop over params.iter().zip(arguments) from pair i + 1 on, and then the
\* call of execute_block on the body
call_loop(h, val, arguments, i, func_env, env, stk) ==
    IF i < Len(val.params) /\ i < Len(arguments)
    THEN /\ envs' = h
         /\ ctl' = Eval(arguments[i + 1], argument_env(func_env, env))
         /\ stack' = Append(stk, [k |-> "Argument", val |-> val, arguments |-> arguments,
                                  i |-> i + 1, func_env |-> func_env, env |-> env])
    ELSE execute_block(h, val.body, func_env,
                       Append(stk, [k |-> "Call", val |-> val,
                                    func_env |-> func_env, env |-> env]))

Callee ==
    /\ ReturnedOk("Callee")
    /\ LET val == ctl.res.v
           arguments == Top.expr.arguments
           paren == Top.expr.paren
       IN  CASE val.t = "NativeFunction" ->
                  /\ IF arguments # <<>>
                     THEN ctl' = Result(Err(RuntimeError_new(
                                    "Native function Expected 0 arguments.", paren.line)))
                     ELSE \E now \in 0..MaxClock : ctl' = Result(Ok(Number(now)))
                  /\ stack' = Rest
                  /\ UNCHANGED envs
             [] val.t = "Function" ->
                  IF arity_mismatch(val.params, arguments)
                  THEN /\ ctl' = Result(Err(ArityError(val.params, arguments, paren)))
                       /\ stack' = Rest
                       /\ UNCHANGED envs
                  ELSE /\ Len(envs) < MaxEnvs
                       /\ LET s == function_scope(envs, val.closure, Top.env)
                          IN  call_loop(s.envs, val, arguments, 0, s.env, Top.env, Rest)
             [] OTHER ->
                  /\ ctl' = Result(Err(RuntimeError_new("Can only call functions.",
                                                        paren.line)))
                  /\ stack' = Rest
                  /\ UNCHANGED envs
    /\ UNCHANGED <<parser, scanner, proc, prog, out, ret>>

Argument ==
    /\ ReturnedOk("Argument")
    /\ call_loop(define(envs, Top.func_env, Top.val.params[Top.i].lexeme, Some(ctl.res.v)),
                 Top.val, Top.arguments, Top.i, Top.func_env, Top.env, Rest)
    /\ UNCHANGED <<parser, scanner, proc, prog, out, ret>>

swallow_error(result) ==
    CASE result.t = "Ok" -> Ok(Nil)
      [] result.e.t = "Return" -> Ok(result.e.value)
      [] OTHER -> Ok(Nil)

return_to_outer_call(result) ==
    CASE result.t = "Ok" -> Ok(Nil)
      [] OTHER -> result

\* the match on the result of execute_block in Expr::Call
call_result(result) ==
    CASE result.t = "Ok" -> Ok(Nil)
      [] result.e.t = "Return" -> Ok(result.e.value)
      [] OTHER -> result

CallResult ==
    /\ ctl.tag = "result"
    /\ Top.k = "Call"
    /\ ctl' = Result(call_result(ctl.res))
    /\ stack' = Rest
    /\ UNCHANGED <<parser, scanner, proc, prog, envs, out, ret>>

\* the ? operator: every call of execute or evaluate other than the one in
\* interpret and the execute_block of Expr::Call is followed by ?
Propagate ==
    /\ ctl.tag = "result"
    /\ ctl.res.t = "Err"
    /\ Top.k \notin {"Call", "interpret"}
    /\ stack' = Rest
    /\ UNCHANGED <<parser, scanner, proc, prog, ctl, envs, out, ret>>

(***************************************************************************)
(* The programs handed to interpret: statement lists as the parser's data  *)
(* types build them, each token with the line it stands on.                *)
(***************************************************************************)
Op(token_type, line) == Token(token_type, token_type, line)
Paren(line) == Token("RightParen", ")", line)
Num(n) == Expr_Literal(Literal_Number(n))
Str(str) == Expr_Literal(Literal_String(str))
True == Expr_Literal(Literal_Bool(TRUE))
False == Expr_Literal(Literal_Bool(FALSE))
NilLit == Expr_Literal(Literal_Nil)
Var(name, line) == Expr_Variable(Ident(name, line))
Call0(name, line) == Expr_Call(Var(name, line), Paren(line), <<>>)
Call1(name, arg, line) == Expr_Call(Var(name, line), Paren(line), <<arg>>)
Bin(left, token_type, right, line) == Expr_Binary(left, Op(token_type, line), right)
Set(name, expr, line) == Expr_Assign(Ident(name, line), expr)
VarDecl(name, expr, line) == Stmt_Var(Ident(name, line), Some(expr))
Fun(name, params, body, line) ==
    Stmt_Function(Ident(name, line), [i \in DOMAIN params |-> Ident(params[i], line)], body)
Ret(expr) == Stmt_Return(Some(expr))

\*  1  var x = g;
\*  2  fun f(y) { return x + y; }
\*  3  fun h() { var x = l; return f(0); }
\*  4  { var x = l; var y = 1; print f(0); }
\*  5  print h();
ProgScope(g, l) ==
    << VarDecl("x", Num(g), 1),
       Fun("f", <<"y">>, <<Ret(Bin(Var("x", 2), "Plus", Var("y", 2), 2))>>, 2),
       Fun("h", <<>>, <<VarDecl("x", Num(l), 3), Ret(Call1("f", Num(0), 3))>>, 3),
       Stmt_Block(<<VarDecl("x", Num(l), 4), VarDecl("y", Num(1), 4),
                    Stmt_Print(Call1("f", Num(0), 4))>>),
       Stmt_Print(Call0("h", 5)) >>

\*  1  fun makeCounter() {
\*  2    var i = 0;
\*  3    fun count() { i = i + 1; return i; }
\*  4    return count;
\*  5  }
\*  6  var c1 = makeCounter();
\*  7  var c2 = makeCounter();
\*  8  print c(); ...          one line for each c of calls, each "c1" or "c2"
ProgCounter(calls) ==
    << Fun("makeCounter", <<>>,
           << VarDecl("i", Num(0), 2),
              Fun("count", <<>>,
                  << Stmt_Expression(Set("i", Bin(Var("i", 3), "Plus", Num(1), 3), 3)),
                     Ret(Var("i", 3)) >>, 3),
              Ret(Var("count", 4)) >>, 1),
       VarDecl("c1", Call0("makeCounter", 6), 6),
       VarDecl("c2", Call0("makeCounter", 7), 7) >>
    \o [j \in DOMAIN calls |-> Stmt_Print(Call0(calls[j], 8))]

RECURSIVE SeqsUpTo(_, _)
SeqsUpTo(S, n) ==
    IF n = 0 THEN {<<>>}
    ELSE LET shorter == SeqsUpTo(S, n - 1)
         IN  shorter \cup {Append(q, x) : q \in shorter, x \in S}

CallSeqs == SeqsUpTo({"c1", "c2"}, MaxCalls) \ {<<>>}

\*  1  fun f(n) {
\*  2    while (true) { if (n > 1) { return n; print "no"; } n = n + 1; print "loop"; }
\*  3    print "no";
\*  4  }
\*  5  fun g() { print "g"; }
\*  6  fun r() { for (; true;) { return; } print "no"; }
\*  7  print f(k); print g(); print r(); print "after";
ProgReturn(k) ==
    << Fun("f", <<"n">>,
           << Stmt_While(True,
                 Stmt_Block(<<
                    Stmt_If(Bin(Var("n", 2), "Greater", Num(1), 2),
                            Stmt_Block(<<Ret(Var("n", 2)), Stmt_Print(Str("no"))>>),
                            None),
                    Stmt_Expression(Set("n", Bin(Var("n", 2), "Plus", Num(1), 2), 2)),
                    Stmt_Print(Str("loop")) >>)),
              Stmt_Print(Str("no")) >>, 1),
       Fun("g", <<>>, <<Stmt_Print(Str("g"))>>, 5),
       Fun("r", <<>>,
           << Stmt_For(None, Some(True), None, Stmt_Block(<<Stmt_Return(None)>>)),
              Stmt_Print(Str("no")) >>, 6),
       Stmt_Print(Call1("f", Num(k), 7)),
       Stmt_Print(Call0("g", 7)),
       Stmt_Print(Call0("r", 7)),
       Stmt_Print(Str("after")) >>

\* a return statement outside every function: alone, in a block, in a loop
\*  1  print "a";
\*  2  return 1;     or  { return 1; }   or  while (true) { return; }
\*  3  print "no";
TopReturns ==
    { Ret(Num(1)),
      Stmt_Block(<<Ret(Num(1))>>),
      Stmt_While(True, Stmt_Block(<<Stmt_Return(None)>>)) }

ProgTopReturn(stmt) == <<Stmt_Print(Str("a")), stmt, Stmt_Print(Str("no"))>>

\* the expressions that raise each runtime error of evaluate, on line 1
Failing ==
    { Expr_Unary(Op("Minus", 1), Str("a")),
      Bin(Num(1), "Plus", Str("a"), 1),
      Bin(Num(1), "Minus", Str("a"), 1),
      Bin(Str("a"), "Star", Num(1), 1),
      Bin(Num(1), "Slash", Num(0), 1),
      Bin(Num(1), "Less", Str("a"), 1),
      Var("u", 1),
      Set("u", Num(1), 1),
      Expr_Call(Str("a"), Paren(1), <<>>),
      Call1("inner", Num(1), 1),
      Call1("clock", Num(1), 1) }

\*  1  fun inner() { print "in"; <failing>; print "no"; }
\*  2  fun outer() { { while (true) { inner(); print "no"; } } return 1; }
\*  3  print "before";
\*  4  print outer();
\*  5  print "no";
ProgError(failing) ==
    << Fun("inner", <<>>,
           <<Stmt_Print(Str("in")), Stmt_Expression(failing), Stmt_Print(Str("no"))>>, 1),
       Fun("outer", <<>>,
           << Stmt_Block(<<
                 Stmt_While(True,
                    Stmt_Block(<<Stmt_Expression(Call0("inner", 2)),
                                 Stmt_Print(Str("no"))>>)) >>),
              Ret(Num(1)) >>, 2),
       Stmt_Print(Str("before")),
       Stmt_Print(Call0("outer", 4)),
       Stmt_Print(Str("no")) >>

\*  1  var x = a;
\*  2  { var x = b; print x; var y = b; }
\*  3  print x;
\*  4  fun f() { { var x = b; return x; } }
\*  5  print f();
\*  6  print x;
\*  7  print y;
ProgShadow(a, b) ==
    << VarDecl("x", Num(a), 1),
       Stmt_Block(<<VarDecl("x", Num(b), 2), Stmt_Print(Var("x", 2)),
                    VarDecl("y", Num(b), 2)>>),
       Stmt_Print(Var("x", 3)),
       Fun("f", <<>>, <<Stmt_Block(<<VarDecl("x", Num(b), 4), Ret(Var("x", 4))>>)>>, 4),
       Stmt_Print(Call0("f", 5)),
       Stmt_Print(Var("x", 6)),
       Stmt_Print(Var("y", 7)) >>

\* the left operands of a logical expression: literals and calls that print
Lefts == {True, False, NilLit, Num(0), Str("s"), Call0("lt", 4), Call0("lf", 4)}
\* the right operands: an assignment, a call that prints, a runtime error
Rights == {Set("a", Num(1), 4), Call0("side", 4), Expr_Unary(Op("Minus", 4), Str("x"))}
LogicalOps == {"Or", "And"}

\*  1  var a = 0;
\*  2  fun lt() { print "left"; return true; }
\*  3  fun lf() { print "left"; return false; }
\*  3  fun side() { print "side"; return 2; }
\*  4  print <left> or <right>;       or: and
\*  5  print a;
ProgLogical(left, op, right) ==
    << VarDecl("a", Num(0), 1),
       Fun("lt", <<>>, <<Stmt_Print(Str("left")), Ret(True)>>, 2),
       Fun("lf", <<>>, <<Stmt_Print(Str("left")), Ret(False)>>, 3),
       Fun("side", <<>>, <<Stmt_Print(Str("side")), Ret(Num(2))>>, 3),
       Stmt_Print(Expr_Logical(left, Op(op, 4), right)),
       Stmt_Print(Var("a", 5)) >>

\*  1  for (var i = 0; i < n; i = i + 1) print i;
\*  2  for (var j = 0; j < n;) { j = j + 1; }
\*  3  var k = 0;
\*  4  for (; k < 1; k = k + 1) {}
\*  5  For(None, None, None, print "once")        a for without a condition
\*  6  if (n > 0) print "pos"; else print "zero";
\*  7  if (!(n == 0)) print -n;
\*  8  print clock() >= 0;
ProgFor(n) ==
    << Stmt_For(Some(VarDecl("i", Num(0), 1)),
                Some(Bin(Var("i", 1), "Less", Num(n), 1)),
                Some(Set("i", Bin(Var("i", 1), "Plus", Num(1), 1), 1)),
                Stmt_Print(Var("i", 1))),
       Stmt_For(Some(VarDecl("j", Num(0), 2)),
                Some(Bin(Var("j", 2), "Less", Num(n), 2)),
                None,
                Stmt_Block(<<Stmt_Expression(
                                Set("j", Bin(Var("j", 2), "Plus", Num(1), 2), 2))>>)),
       Stmt_Var(Ident("k", 3), None),
       Stmt_Expression(Set("k", Num(0), 3)),
       Stmt_For(None,
                Some(Bin(Var("k", 4), "Less", Num(1), 4)),
                Some(Set("k", Bin(Var("k", 4), "Plus", Num(1), 4), 4)),
                Stmt_Block(<<>>)),
       Stmt_For(None, None, None, Stmt_Print(Str("once"))),
       Stmt_If(Bin(Num(n), "Greater", Num(0), 6),
               Stmt_Print(Str("pos")), Some(Stmt_Print(Str("zero")))),
       Stmt_If(Expr_Unary(Op("Bang", 7),
                          Expr_Grouping(Bin(Num(n), "EqualEqual", Num(0), 7))),
               Stmt_Print(Expr_Unary(Op("Minus", 7), Num(n))), None),
       Stmt_Print(Bin(Call0("clock", 8), "GreaterEqual", Num(0), 8)) >>

\*  1  fun f(b, a) { print b; print a; }
\*  2  fun one() { print "one"; return u; }
\*  3  fun two() { print "two"; return v; }
\*  4  { var a = u; var b = v; f(a, b); }
\*  5  f(one(), two());
\*  6  f(one(), -"s");
ProgArgs(u, v) ==
    << Stmt_Function(Ident("f", 1), <<Ident("b", 1), Ident("a", 1)>>,
                     <<Stmt_Print(Var("b", 1)), Stmt_Print(Var("a", 1))>>),
       Fun("one", <<>>, <<Stmt_Print(Str("one")), Ret(Num(u))>>, 2),
       Fun("two", <<>>, <<Stmt_Print(Str("two")), Ret(Num(v))>>, 3),
       Stmt_Block(<< VarDecl("a", Num(u), 4), VarDecl("b", Num(v), 4),
                     Stmt_Expression(Expr_Call(Var("f", 4), Paren(4),
                                               <<Var("a", 4), Var("b", 4)>>)) >>),
       Stmt_Expression(Expr_Call(Var("f", 5), Paren(5),
                                 <<Call0("one", 5), Call0("two", 5)>>)),
       Stmt_Expression(Expr_Call(Var("f", 6), Paren(6),
                                 <<Call0("one", 6), Expr_Unary(Op("Minus", 6), Str("s"))>>)) >>

\*  1  fun f(p1, ..., pp) { print "body"; }
\*  2  print "before";
\*  3  callee(1, ..., 1);          n arguments, callee is f or clock
\*  4  print "after";
ProgArity(callee, p, n) ==
    << Fun("f", [j \in 1..p |-> "p" \o ToString(j)], <<Stmt_Print(Str("body"))>>, 1),
       Stmt_Print(Str("before")),
       Stmt_Expression(Expr_Call(Var(callee, 3), Paren(3), [j \in 1..n |-> Num(1)])),
       Stmt_Print(Str("after")) >>

Callees == {"f", "clock"}
Arities == 0..MaxArgs

\*  1  fun cond(i) { print "cond"; return i < n; }
\*  2  fun inc(i) { print "inc"; return i + 1; }
\*  3  for (var i = 0; cond(i); i = inc(i)) print i;
\*  4  print "done";
ProgForOrder(n) ==
    << Fun("cond", <<"i">>,
           <<Stmt_Print(Str("cond")), Ret(Bin(Var("i", 1), "Less", Num(n), 1))>>, 1),
       Fun("inc", <<"i">>,
           <<Stmt_Print(Str("inc")), Ret(Bin(Var("i", 2), "Plus", Num(1), 2))>>, 2),
       Stmt_For(Some(VarDecl("i", Num(0), 3)),
                Some(Call1("cond", Var("i", 3), 3)),
                Some(Set("i", Call1("inc", Var("i", 3), 3), 3)),
                Stmt_Print(Var("i", 3))),
       Stmt_Print(Str("done")) >>

\* a for statement without a condition, as Stmt::For(None, None, Some(..), ..)
\*  1  var k = 0;
\*  2  for (;; k = k + 1) print "body";
\*  3  print "after";
ProgNoCondition ==
    << VarDecl("k", Num(0), 1),
       Stmt_For(None, None, Some(Set("k", Bin(Var("k", 2), "Plus", Num(1), 2), 2)),
                Stmt_Print(Str("body"))),
       Stmt_Print(Str("after")) >>

Iters == 0..MaxIter

\*  1  print <left> op <right>;       op one of - * /
ProgArith(left, op, right) == <<Stmt_Print(Bin(left, op, right, 1))>>

\* the operands: the whole numbers of the model and a value of each other kind
Operands == {Num(n) : n \in 0..MaxNum} \cup {Str("a"), True, NilLit}
ArithOps == {"Minus", "Star", "Slash"}

\*  1  fun f() { print clock() >= 0; }
\*  2  { var clock = n;
\*  3    { print clock; f(); } }
\*  4  print clock() >= 0;
ProgClock(n) ==
    << Fun("f", <<>>,
           <<Stmt_Print(Bin(Call0("clock", 1), "GreaterEqual", Num(0), 1))>>, 1),
       Stmt_Block(<<VarDecl("clock", Num(n), 2),
                    Stmt_Block(<<Stmt_Print(Var("clock", 3)),
                                 Stmt_Expression(Call0("f", 3))>>)>>),
       Stmt_Print(Bin(Call0("clock", 4), "GreaterEqual", Num(0), 4)) >>

\*  1  var i = 2;
\*  2  for (var i = 0; i < n; i = i + 1) print i;
\*  3  print i;
\*  4  { for (var j = 0; j < n; j = j + 1) {}
\*  5    print j; }
\*  6  print j;
ProgForScope(n) ==
    << VarDecl("i", Num(2), 1),
       Stmt_For(Some(VarDecl("i", Num(0), 2)),
                Some(Bin(Var("i", 2), "Less", Num(n), 2)),
                Some(Set("i", Bin(Var("i", 2), "Plus", Num(1), 2), 2)),
                Stmt_Print(Var("i", 2))),
       Stmt_Print(Var("i", 3)),
       Stmt_Block(<<Stmt_For(Some(VarDecl("j", Num(0), 4)),
                             Some(Bin(Var("j", 4), "Less", Num(n), 4)),
                             Some(Set("j", Bin(Var("j", 4), "Plus", Num(1), 4), 4)),
                             Stmt_Block(<<>>)),
                    Stmt_Print(Var("j", 5))>>),
       Stmt_Print(Var("j", 6)) >>

Nums == 0..MaxNum

Programs ==
    {ProgScope(g, l) : g \in Nums, l \in Nums}
    \cup {ProgCounter(calls) : calls \in CallSeqs}
    \cup {ProgReturn(k) : k \in Nums}
    \cup {ProgTopReturn(stmt) : stmt \in TopReturns}
    \cup {ProgError(failing) : failing \in Failing}
    \cup {ProgShadow(a, b) : a \in Nums, b \in Nums}
    \cup {ProgLogical(left, op, right) : left \in Lefts, op \in LogicalOps, right \in Rights}
    \cup {ProgFor(n) : n \in Nums}
    \cup {ProgArgs(u, v) : u \in Nums, v \in Nums}
    \cup {ProgForOrder(n) : n \in Iters}
    \cup {ProgNoCondition}
    \cup {ProgArith(left, op, right) : left \in Operands, op \in ArithOps, right \in Operands}
    \cup {ProgArity(callee, p, n) : callee \in Callees, p \in Arities, n \in Arities}
    \cup {ProgClock(n) : n \in Nums}
    \cup {ProgForScope(n) : n \in Iters}

(***************************************************************************)
(* The run command from the call of Interpreter::new on.                   *)
(***************************************************************************)
Init ==
    /\ prog \in Programs
    /\ ctl = Start
    /\ stack = <<>>
    /\ envs = NewHeap
    /\ out = <<>>
    /\ ret = [op |-> "new", env |-> Global]
    /\ scanner = NoScanner
    /\ parser = NoParser
    /\ proc = Running

Next ==
    \/ InterpretStart \/ InterpretNext \/ InterpretErr
    \/ ExecPrint \/ PrintValue
    \/ ExecExpression \/ ExpressionValue
    \/ ExecVar \/ VarValue
    \/ ExecBlock \/ BlockNext
    \/ ExecIf \/ IfCondition
    \/ ExecWhile \/ WhileCondition \/ WhileBody
    \/ ExecFor \/ ForInitializer \/ ForCondition \/ ForBody \/ ForIncrement
    \/ ExecFunction
    \/ ExecReturn \/ ReturnValue
    \/ EvalLiteral \/ EvalGrouping
    \/ EvalUnary \/ UnaryRight
    \/ EvalBinary \/ BinaryLeft \/ BinaryRight
    \/ EvalVariable
    \/ EvalAssign \/ AssignValue
    \/ EvalLogical \/ LogicalLeft
    \/ EvalCall \/ Callee \/ Argument \/ CallResult
    \/ Propagate

Spec == Init /\ [][Next]_vars

(***************************************************************************)
(* What the interpreter is required to do.                                 *)
(***************************************************************************)
Calls == {j \in DOMAIN stack : stack[j].k = "Call"}
InnermostCall == stack[CHOOSE j \in Calls : \A i \in Calls : i <= j]
IsFinished == ctl.tag = "finished"
IsPrefix(p, q) == Len(p) <= Len(q) /\ \A j \in DOMAIN p : p[j] = q[j]
ParamNames(val) == {val.params[j].lexeme : j \in DOMAIN val.params}

\* the scopes searched from e before the search leaves the function called
\* with parameter scope func_env: e and its enclosing scopes up to func_env
LocalScopes(e, func_env) ==
    LET ch == Chain(envs, e)
        at == CHOOSE j \in DOMAIN ch : ch[j] = func_env
    IN  {ch[j] : j \in 1..at}

ScopeOutput(g) == <<Display(Number(g)), Display(Number(g))>>

\* C1: a call of a declared function binds exactly its parameters in a new
\* environment whose enclosing environment is the closure captured at the
\* declaration, never the caller's; a variable the body does not bind itself
\* resolves as it does from the closure, so the scope program prints the
\* global x on both lines though each caller has its own x.
C1_LexicalScoping ==
    /\ \A j \in Calls :
          /\ envs[stack[j].func_env].enclosing = stack[j].val.closure
          /\ DOMAIN envs[stack[j].func_env].values = ParamNames(stack[j].val)
    /\ (Evaluating("Variable") /\ Calls # {}) =>
          LET c == InnermostCall
          IN  /\ c.func_env \in {Chain(envs, ctl.env)[j] : j \in DOMAIN Chain(envs, ctl.env)}
              /\ (\A e \in LocalScopes(ctl.env, c.func_env) :
                     ctl.expr.name.lexeme \notin DOMAIN envs[e].values)
                 => get(envs, ctl.env, ctl.expr.name) = get(envs, c.val.closure, ctl.expr.name)
    /\ \A g \in Nums, l \in Nums :
          prog = ProgScope(g, l) =>
             /\ IsPrefix(out, ScopeOutput(g))
             /\ IsFinished => (ctl.res = Ok(Unit) /\ out = ScopeOutput(g))

\* the body of f reads x while its caller, the block of line 4, binds x to 2:
\* the read yields the 1 of the declaration site
C1_Witness ==
    /\ prog = ProgScope(1, 2)
    /\ Evaluating("Variable")
    /\ ctl.expr.name.lexeme = "x"
    /\ Calls # {}
    /\ InnermostCall.val.name = "f"
    /\ get(envs, InnermostCall.env, Ident("x", 0)) = Ok(Some(Number(2)))
    /\ get(envs, ctl.env, ctl.expr.name) = Ok(Some(Number(1)))

\* the number of calls of the counter calls[j] among the first j calls
CallsSoFar(calls, j) == Cardinality({m \in 1..j : calls[m] = calls[j]})

\* C2: each call of a counter prints the number of calls made to that same
\* counter so far, whatever calls of the other counter lie in between: a
\* counter sees its earlier increments and never those of the other one.
C2_ClosuresKeepState ==
    \A calls \in CallSeqs :
       prog = ProgCounter(calls) =>
          /\ Len(out) <= Len(calls)
          /\ \A j \in DOMAIN out : out[j] = Display(Number(CallsSoFar(calls, j)))
          /\ IsFinished => (ctl.res = Ok(Unit) /\ Len(out) = Len(calls))

\* c1 was called twice and then c2 once
C2_Witness ==
    /\ prog = ProgCounter(<<"c1", "c1", "c2">>)
    /\ IsFinished
    /\ out = <<"1", "2", "1">>

ReturnInFlight == ctl.tag = "result" /\ ctl.res.t = "Err" /\ ctl.res.e.t = "Return"
ErrorInFlight == ctl.tag = "result" /\ ctl.res.t = "Err" /\ ctl.res.e.t = "Error"

\* a return signal inside a call is handed down one frame at a time with
\* nothing executed, bound or printed on the way, and the first call frame it
\* meets turns it into the value of the call expression
ReturnStep ==
    (ReturnInFlight /\ Calls # {}) =>
        /\ stack' = Rest
        /\ out' = out
        /\ envs' = envs
        /\ ctl' = IF Top.k = "Call" THEN Result(Ok(ctl.res.e.value)) ELSE ctl

\* a body that runs to its end makes the call yield nil
FallOffStep ==
    (ctl = Result(Ok(Unit)) /\ stack # <<>> /\ Top.k = "Call") =>
        /\ stack' = Rest
        /\ ctl' = Result(Ok(Nil))
        /\ UNCHANGED <<out, envs>>

RECURSIVE Repeat(_, _)
Repeat(line, n) == IF n <= 0 THEN <<>> ELSE <<line>> \o Repeat(line, n - 1)

\* f(k) counts n up to 2 and returns it out of an if in a while; g has no
\* return; r returns without a value out of a for
ReturnOutput(k) ==
    Repeat("loop", 2 - k) \o
    <<Display(Number(IF k > 1 THEN k ELSE 2)), "g", "nil", "nil", "after">>

\* C3: a return inside a function body unwinds exactly to the nearest
\* enclosing call, skipping the rest of the body and of every block, if and
\* loop around it; the call yields the returned value, or nil for a return
\* without expression and for a body without return; the caller continues.
C3_ReturnUnwindsToCall ==
    /\ [][ReturnStep /\ FallOffStep]_vars
    /\ [](\A k \in Nums :
            prog = ProgReturn(k) =>
               /\ IsPrefix(out, ReturnOutput(k))
               /\ IsFinished => (ctl.res = Ok(Unit) /\ out = ReturnOutput(k)))

\* f(0) returned 2 from inside the if, the block and the while, g and r
\* yielded nil, and the statement after the calls ran
C3_Witness ==
    /\ prog = ProgReturn(0)
    /\ IsFinished
    /\ out = <<"loop", "loop", "2", "g", "nil", "nil", "after">>

\* C4: the result of Interpreter::interpret is success or a genuine runtime
\* error, never the signal that carries a return.
C4_NoReturnAtTopLevel ==
    IsFinished => ~(ctl.res.t = "Err" /\ ctl.res.e.t = "Return")

\* a runtime error in flight is handed down unchanged through every frame,
\* the call frames included, with nothing bound or printed, until interpret
\* returns it
ErrorStep ==
    ErrorInFlight =>
        /\ stack' = Rest
        /\ out' = out
        /\ envs' = envs
        /\ \/ ctl' = ctl
           \/ Top.k = "interpret" /\ ctl' = Finished(ctl.res)

\* C5: a runtime error propagates unchanged through every enclosing block,
\* loop and call, no later statement runs and nothing more is printed, and
\* interpret returns that same error: the error program prints "before" and
\* "in" and nothing after the failing expression.
C5_ErrorNeverIntercepted ==
    /\ [][ErrorStep]_vars
    /\ [](\A failing \in Failing :
            prog = ProgError(failing) =>
               /\ IsPrefix(out, <<"before", "in">>)
               /\ IsFinished => /\ out = <<"before", "in">>
                                /\ ctl.res.t = "Err"
                                /\ ctl.res.e.t = "Error")

\* the division by zero raised in inner, two calls deep, is what interpret
\* returned
C5_Witness ==
    /\ prog = ProgError(Bin(Num(1), "Slash", Num(0), 1))
    /\ IsFinished
    /\ ctl.res = Err(RuntimeError_new("Division by zero.", 1))
    /\ out = <<"before", "in">>

\* the environment in force for the code suspended in frame j of the stack
\* (for j = Len(stack) + 1, the code that is running): that of the nearest
\* block entered below it, else the parameter scope of the nearest call
EnvBelow(j) ==
    LET scopes == {i \in 1..(j - 1) : stack[i].k \in {"Block", "Call"}}
    IN  IF scopes = {} THEN Global
        ELSE LET f == stack[CHOOSE i \in scopes : \A m \in scopes : m <= i]
             IN  IF f.k = "Block" THEN f.env ELSE f.func_env

\* entering a block allocates one empty environment enclosed by the current one
BlockEntryStep ==
    Executing("Block") =>
        /\ envs' = Append(envs, [values |-> EmptyMap, enclosing |-> ctl.env])
        /\ out' = out
        /\ \/ ctl' = Result(Ok(Unit)) /\ stack' = stack
           \/ /\ ctl'.tag = "execute"
              /\ ctl'.env = Len(envs')
              /\ Top'.k = "Block"
              /\ Top'.env = Len(envs')
              /\ Rest' = stack

\* every block runs in a child of the environment in force where it was
\* entered, no two blocks on the stack share one, and whatever is running or
\* waiting outside a block uses the environment in force before the block
ScopesRestored ==
    /\ \A j \in DOMAIN stack :
          /\ stack[j].k = "Block" =>
                /\ envs[stack[j].env].enclosing = EnvBelow(j)
                /\ \A i \in 1..(j - 1) : stack[i].k = "Block" => stack[i].env # stack[j].env
          /\ ("env" \in DOMAIN stack[j] /\ stack[j].k # "Block") =>
                stack[j].env = EnvBelow(j)
    /\ ctl.tag \in {"execute", "evaluate"} => ctl.env = EnvBelow(Len(stack) + 1)

\* the shadowing program prints the inner x, the outer x, the x of the block
\* in f, the outer x again, and fails on the y declared in the first block
ShadowOutput(a, b) ==
    <<Display(Number(b)), Display(Number(a)), Display(Number(b)), Display(Number(a))>>

\* C6: a block runs its statements in one new child of the current
\* environment, and once it has ended, by its last statement, by an error or
\* by a return, execution goes on under the environment in force before it:
\* the names declared in the block are gone and a shadowed outer binding
\* still has its own value.
C6_BlockScopeRestored ==
    /\ [][BlockEntryStep]_vars
    /\ []ScopesRestored
    /\ [](\A a \in Nums, b \in Nums :
            prog = ProgShadow(a, b) =>
               /\ IsPrefix(out, ShadowOutput(a, b))
               /\ IsFinished =>
                     /\ out = ShadowOutput(a, b)
                     /\ ctl.res = Err(RuntimeError_new("Undefined variable 'y'.", 7)))

\* var x = 1; { var x = 2; print x; } print x; printed 2 then 1, and so again
\* around the block that f returned from
C6_Witness ==
    /\ prog = ProgShadow(1, 2)
    /\ IsFinished
    /\ out = <<"2", "1", "2", "1">>
    /\ ctl.res = Err(RuntimeError_new("Undefined variable 'y'.", 7))

\* the evaluation of a logical expression starts with its left operand
LogicalEntryStep ==
    Evaluating("Logical") =>
        /\ ctl' = Eval(ctl.expr.left, ctl.env)
        /\ UNCHANGED <<out, envs>>

\* whether the value of the left operand settles the expression
Settles(op, left) ==
    \/ op = "Or" /\ is_truthy(left)
    \/ op = "And" /\ ~is_truthy(left)

\* once the left value is known the right operand is entered only if the
\* left value does not settle the expression
LogicalLeftStep ==
    (ctl.tag = "result" /\ ctl.res.t = "Ok" /\ stack # <<>> /\ Top.k = "Logical"
        /\ Top.expr.op.token_type \in LogicalOps) =>
        /\ stack' = Rest
        /\ UNCHANGED <<out, envs>>
        /\ ctl' = IF Settles(Top.expr.op.token_type, ctl.res.v)
                  THEN Result(Ok(ctl.res.v))
                  ELSE Eval(Top.expr.right, Top.env)

LeftValue(left) ==
    CASE left.t = "Literal" -> literal_value(left.lit)
      [] left = Call0("lt", 4) -> Bool(TRUE)
      [] left = Call0("lf", 4) -> Bool(FALSE)

LeftOutput(left) == IF left.t = "Call" THEN <<"left">> ELSE <<>>

\* what print <left> op <right>; print a; prints, and whether it succeeds
LogicalOutput(left, op, right) ==
    CASE Settles(op, LeftValue(left)) ->
            [out |-> LeftOutput(left) \o <<Display(LeftValue(left)), "0">>, ok |-> TRUE]
      [] OTHER ->
            CASE right.t = "Assign" -> [out |-> LeftOutput(left) \o <<"1", "1">>, ok |-> TRUE]
              [] right.t = "Call" -> [out |-> LeftOutput(left) \o <<"side", "2", "0">>, ok |-> TRUE]
              [] right.t = "Unary" -> [out |-> LeftOutput(left), ok |-> FALSE]

\* C10: the left operand of and/or is evaluated first; the right operand is
\* evaluated only when the left value is falsy for or, truthy for and; when
\* it is skipped its assignment is not made, its call prints nothing and its
\* error is not raised.
C10_LogicalShortCircuit ==
    /\ [][LogicalEntryStep /\ LogicalLeftStep]_vars
    /\ [](\A left \in Lefts, op \in LogicalOps, right \in Rights :
            prog = ProgLogical(left, op, right) =>
               LET want == LogicalOutput(left, op, right)
               IN  /\ IsPrefix(out, want.out)
                   /\ IsFinished => /\ out = want.out
                                    /\ (ctl.res = Ok(Unit)) = want.ok)

\* lt() or a = 1: the left call printed and was truthy, a is still 0
C10_Witness ==
    /\ prog = ProgLogical(Call0("lt", 4), "Or", Set("a", Num(1), 4))
    /\ IsFinished
    /\ out = <<"left", "true", "0">>

\* the call frames and argument frames of calls whose arguments are being
\* evaluated
ArgumentFrames == {j \in DOMAIN stack : stack[j].k = "Argument"}

\* the scopes reachable from e
Reachable(e) == {Chain(envs, e)[j] : j \in DOMAIN Chain(envs, e)}

\* the argument loop goes through the arguments in order: once argument i has
\* its value, either argument i + 1 is evaluated next in the same caller
\* environment or, after the last one, the body is entered
ArgumentStep ==
    (ctl.tag = "result" /\ ctl.res.t = "Ok" /\ stack # <<>> /\ Top.k = "Argument") =>
        /\ out' = out
        /\ envs'[Top.func_env].values =
              insert(envs[Top.func_env].values, Top.val.params[Top.i].lexeme, Some(ctl.res.v))
        /\ IF Top.i < Len(Top.arguments)
           THEN /\ ctl' = Eval(Top.arguments[Top.i + 1], Top.env)
                /\ Top'.k = "Argument"
                /\ Top'.i = Top.i + 1
                /\ Top'.func_env = Top.func_env
                /\ Rest' = Rest
           ELSE (Len(stack') > Len(Rest) /\ stack'[Len(Rest) + 1].k = "Call")

\* while argument i is evaluated, in the caller's environment, the callee's
\* new environment holds the parameters of the arguments before it and is
\* out of reach of the argument's expression
ArgumentsInCallerScope ==
    /\ \A j \in ArgumentFrames :
          /\ stack[j].env = EnvBelow(j)
          /\ DOMAIN envs[stack[j].func_env].values =
                {stack[j].val.params[m].lexeme : m \in 1..(stack[j].i - 1)}
          /\ (j = Len(stack) /\ ctl.tag = "evaluate") =>
                /\ ctl.expr = stack[j].arguments[stack[j].i]
                /\ ctl.env = stack[j].env
    /\ ctl.tag \in {"execute", "evaluate"} =>
          \A j \in ArgumentFrames : stack[j].func_env \notin Reachable(ctl.env)

ArgsOutput(u, v) ==
    << Display(Number(u)), Display(Number(v)),
       "one", "two", Display(Number(u)), Display(Number(v)), "one" >>

\* C11 as stated: every argument of a call is evaluated before any parameter
\* is bound in the callee's new environment.
C11_AllArgumentsBeforeAnyBinding ==
    \A j \in ArgumentFrames : envs[stack[j].func_env].values = EmptyMap

\* C11 as amended: the arguments of a call are evaluated left to right in the
\* caller's environment, each before its own parameter is bound; the
\* parameters of the arguments already evaluated are bound in the callee's
\* new environment, which no argument expression can reach.
C11_ArgumentsLeftToRightInCaller ==
    /\ [][ArgumentStep]_vars
    /\ []ArgumentsInCallerScope
    /\ [](\A u \in Nums, v \in Nums :
            prog = ProgArgs(u, v) =>
               /\ IsPrefix(out, ArgsOutput(u, v))
               /\ IsFinished =>
                     /\ out = ArgsOutput(u, v)
                     /\ ctl.res = Err(RuntimeError_new("Invalid operand for unary operator", 6)))

\* f(b, a) is called with the caller's a and b: the second argument, b, is
\* being evaluated to the caller's 2 while the parameter b is already 1
C11_Witness ==
    /\ prog = ProgArgs(1, 2)
    /\ Evaluating("Variable")
    /\ stack # <<>>
    /\ Top.k = "Argument"
    /\ Top.i = 2
    /\ envs[Top.func_env].values = ("b" :> Some(Number(1)))
    /\ get(envs, ctl.env, ctl.expr.name) = Ok(Some(Number(2)))

\* a call with the wrong number of arguments fails where the callee's value
\* is known: no environment is made, no argument is evaluated, no body entered
ArityStep ==
    (ctl.tag = "result" /\ ctl.res.t = "Ok" /\ stack # <<>> /\ Top.k = "Callee"
        /\ \/ ctl.res.v.t = "Function" /\ Len(Top.expr.arguments) # Len(ctl.res.v.params)
           \/ ctl.res.v.t = "NativeFunction" /\ Top.expr.arguments # <<>>) =>
        /\ stack' = Rest
        /\ UNCHANGED <<envs, out>>
        /\ ctl'.tag = "result"
        /\ ctl'.res.t = "Err"
        /\ ctl'.res.e.t = "Error"

\* what the arity program prints and returns
ArityOutput(callee, p, n) ==
    CASE callee = "f" /\ n = p ->
            [out |-> <<"before", "body", "after">>, res |-> Ok(Unit)]
      [] callee = "f" /\ n # p ->
            [out |-> <<"before">>,
             res |-> Err(RuntimeError_new("Expected " \o ToString(p) \o " arguments but got "
                                             \o ToString(n) \o ". ", 3))]
      [] callee = "clock" /\ n = 0 ->
            [out |-> <<"before", "after">>, res |-> Ok(Unit)]
      [] callee = "clock" /\ n # 0 ->
            [out |-> <<"before">>,
             res |-> Err(RuntimeError_new("Native function Expected 0 arguments.", 3))]

\* C12: a call of a declared function with a number of arguments other than
\* its number of parameters raises a runtime error naming the expected and
\* the actual count and does not execute the body; a call of the native
\* function with one or more arguments raises a runtime error too.
C12_ArityChecked ==
    /\ [][ArityStep]_vars
    /\ [](\A callee \in Callees, p \in Arities, n \in Arities :
            prog = ProgArity(callee, p, n) =>
               /\ IsPrefix(out, ArityOutput(callee, p, n).out)
               /\ IsFinished => /\ out = ArityOutput(callee, p, n).out
                                /\ ctl.res = ArityOutput(callee, p, n).res)

\* a one-parameter function was called with two arguments
C12_Witness ==
    /\ prog = ProgArity("f", 1, 2)
    /\ IsFinished
    /\ out = <<"before">>
    /\ ctl.res = Err(RuntimeError_new("Expected 1 arguments but got 2. ", 3))

ForReturned(k) == ctl.tag = "result" /\ ctl.res.t = "Ok" /\ stack # <<>> /\ Top.k = k

\* the order of the parts of a for statement with a condition: initializer,
\* then condition; truthy condition, then body; body, then increment (if
\* any); increment, then condition; falsy condition, then the end
ForStep ==
    /\ (ForReturned("ForInitializer") /\ Top.stmt.condition.t = "Some") =>
          ctl' = Eval(Top.stmt.condition.v, Top.env)
    /\ (ForReturned("ForCondition") /\ is_truthy(ctl.res.v)) =>
          /\ ctl' = Exec(Top.stmt.body, Top.env)
          /\ Len(stack') = Len(stack)
    /\ (ForReturned("ForCondition") /\ ~is_truthy(ctl.res.v)) =>
          /\ ctl' = Result(Ok(Unit))
          /\ stack' = Rest
    /\ ForReturned("ForBody") =>
          ctl' = Eval(IF Top.stmt.increment.t = "Some" THEN Top.stmt.increment.v
                      ELSE Top.stmt.condition.v, Top.env)
    /\ ForReturned("ForIncrement") =>
          ctl' = Eval(Top.stmt.condition.v, Top.env)
    /\ (Executing("For") /\ ctl.stmt.initializer.t = "Some") =>
          ctl' = Exec(ctl.stmt.initializer.v, ctl.env)
    /\ (ctl'.tag = "execute" /\ stack # <<>> /\ Top.k \in {"ForCondition", "ForBody", "ForIncrement"}
          /\ Len(stack') = Len(stack)) =>
          ctl'.stmt = Top.stmt.body

\* the lines printed by the rounds k, k + 1, ... of the loop of the order
\* program and after it
RECURSIVE Rounds(_, _)
Rounds(k, n) ==
    IF k >= n THEN <<"cond", "done">>
    ELSE <<"cond", Display(Number(k)), "inc">> \o Rounds(k + 1, n)

\* C13: a for statement runs its initializer once, then repeats: evaluate
\* the condition and, if it is truthy, execute the body and then evaluate the
\* increment; it stops the first time the condition is falsy. With i from 0
\* while i < 3 the body prints 0, 1, 2 in that order and the loop ends.
C13_ForLoopOrder ==
    /\ [][ForStep]_vars
    /\ [](\A n \in Iters :
            prog = ProgForOrder(n) =>
               /\ IsPrefix(out, Rounds(0, n))
               /\ IsFinished => (ctl.res = Ok(Unit) /\ out = Rounds(0, n)))

\* the loop over i from 0 while i < 3, its condition and increment announcing
\* themselves, has printed 0, 1, 2 and ended
C13_Witness ==
    /\ prog = ProgForOrder(3)
    /\ IsFinished
    /\ out = << "cond", "0", "inc", "cond", "1", "inc", "cond", "2", "inc", "cond", "done" >>

IsResult(v, left, op, right) ==
    CASE op = "Minus" -> v.n * left.d * right.d = (left.n * right.d - right.n * left.d) * v.d
      [] op = "Star" -> v.n * left.d * right.d = left.n * right.n * v.d
      [] op = "Slash" -> v.n * left.d * right.n = left.n * right.d * v.d

\* what left op right yields once both operands have their values
ArithStep ==
    (ctl.tag = "result" /\ ctl.res.t = "Ok" /\ stack # <<>> /\ Top.k = "BinaryRight"
        /\ Top.op.token_type \in ArithOps) =>
        LET left == Top.left
            right == ctl.res.v
            op == Top.op
        IN  /\ UNCHANGED <<out, envs>>
            /\ stack' = Rest
            /\ ctl'.tag = "result"
            /\ IF left.t # "Number" \/ right.t # "Number"
               THEN ctl'.res = Err(RuntimeError_new("Operands must be numbers.", op.line))
               ELSE IF op.token_type = "Slash" /\ right.n = 0
               THEN ctl'.res = Err(RuntimeError_new("Division by zero.", op.line))
               ELSE /\ ctl'.res.t = "Ok"
                    /\ ctl'.res.v.t = "Number"
                    /\ ctl'.res.v.d > 0
                    /\ IsResult(ctl'.res.v, left, op.token_type, right)

\* whether print left op right fails, on operands that are literals
ArithFails(left, op, right) ==
    \/ left.lit.t # "Number"
    \/ right.lit.t # "Number"
    \/ op = "Slash" /\ right.lit.n = 0

\* C15: -, * and / raise "Operands must be numbers" unless both operands are
\* numbers, / by a numeric zero raises "Division by zero" and yields no
\* value, and in every other case the result is the Number that is the
\* difference, product or quotient.
C15_ArithmeticChecksOperands ==
    /\ [][ArithStep]_vars
    /\ [](\A left \in Operands, op \in ArithOps, right \in Operands :
            (prog = ProgArith(left, op, right) /\ IsFinished) =>
               IF ArithFails(left, op, right)
               THEN /\ out = <<>>
                    /\ ctl.res.t = "Err"
                    /\ ctl.res.e.t = "Error"
                    /\ ctl.res.e.message \in {"Operands must be numbers.", "Division by zero."}
                    /\ (ctl.res.e.message = "Division by zero.") =
                          (op = "Slash" /\ left.lit.t = "Number" /\ right.lit.t = "Number")
               ELSE /\ ctl.res = Ok(Unit)
                    /\ Len(out) = 1
                    /\ op = "Minus" => out[1] = ToString(left.lit.n - right.lit.n)
                    /\ op = "Star" => out[1] = ToString(left.lit.n * right.lit.n))

\* 1 / 0 printed nothing and failed with the division error
C15_Witness ==
    /\ prog = ProgArith(Num(1), "Slash", Num(0))
    /\ IsFinished
    /\ ctl.res = Err(RuntimeError_new("Division by zero.", 1))
    /\ out = <<>>

\* C16: every runtime error carries the line of the token at which it
\* arose, so that it prints as "[line N] Error: message" with N that line:
\* each failing expression of the error program stands on line 1.
C16_ErrorsCarryTokenLine ==
    \A failing \in Failing :
       (prog = ProgError(failing) /\ IsFinished) =>
          /\ ctl.res.t = "Err"
          /\ ctl.res.e.t = "Error"
          /\ ctl.res.e.line = 1
          /\ RuntimeError_fmt(ctl.res.e) = "[line 1] Error: " \o ctl.res.e.message

(***************************************************************************)
(* Source text.  A &str is the sequence of its chars, each a string of one *)
(* character; its bytes are the UTF-8 encodings of the chars laid end to   *)
(* end.                                                                    *)
(***************************************************************************)
\* char::len_utf8
Width(c) == CASE c = "é" -> 2 [] c = "§" -> 2 [] c = "€" -> 3 [] OTHER -> 1

\* str::len, a number of bytes
RECURSIVE len(_)
len(source) ==
    IF source = <<>> THEN 0 ELSE Width(Head(source)) + len(Tail(source))

\* source.chars().nth(k)
nth(source, k) == IF k < Len(source) THEN Some(source[k + 1]) ELSE None

\* source.chars().skip(skip).take(take)
skip_take(source, skip, take) ==
    SubSeq(source, skip + 1, IF skip + take < Len(source) THEN skip + take ELSE Len(source))

\* Iterator::collect::<String>
RECURSIVE collect(_)
collect(chars) == IF chars = <<>> THEN "" ELSE Head(chars) \o collect(Tail(chars))

\* the number of chars that end at byte index, if some char ends there
CharsBefore(source, index) == {k \in 0..Len(source) : len(SubSeq(source, 1, k)) = index}
is_char_boundary(source, index) == CharsBefore(source, index) # {}

\* &source[from..to], which panics unless from <= to <= len and both are
\* char boundaries
slice(source, from, to) ==
    IF from <= to /\ is_char_boundary(source, from) /\ is_char_boundary(source, to)
    THEN Some(SubSeq(source, (CHOOSE k \in CharsBefore(source, from) : TRUE) + 1,
                             CHOOSE k \in CharsBefore(source, to) : TRUE))
    ELSE None

Digits == {"0", "1", "2", "3", "4", "5", "6", "7", "8", "9"}
Letters ==
    {"a", "b", "c", "d", "e", "f", "g", "h", "i", "j", "k", "l", "m",
     "n", "o", "p", "q", "r", "s", "t", "u", "v", "w", "x", "y", "z", "é"}
is_digit(c) == c \in Digits
is_alphabetic(c) == c \in Letters
is_alphanumeric(c) == is_alphabetic(c) \/ is_digit(c)

to_digit(c) == CHOOSE d \in 0..9 : ToString(d) = c

\* the whole number written by a sequence of digits
RECURSIVE DigitsValue(_)
DigitsValue(chars) ==
    IF chars = <<>> THEN 0
    ELSE 10 * DigitsValue(SubSeq(chars, 1, Len(chars) - 1)) + to_digit(chars[Len(chars)])

RECURSIVE Pow10(_)
Pow10(k) == IF k = 0 THEN 1 ELSE 10 * Pow10(k - 1)

\* str::parse::<f64> on text that holds neither an exponent nor the words
\* inf and nan: an optional sign, digits with at most one point among them,
\* and at least one digit
parse_f64(text) ==
    LET signed == text # <<>> /\ Head(text) \in {"-", "+"}
        digits == IF signed THEN Tail(text) ELSE text
        points == {i \in DOMAIN digits : digits[i] = "."}
        point == IF points = {} THEN Len(digits) + 1 ELSE CHOOSE i \in points : TRUE
        whole == SubSeq(digits, 1, point - 1)
        fraction == SubSeq(digits, point + 1, Len(digits))
        sign == IF signed /\ Head(text) = "-" THEN 0 - 1 ELSE 1
    IN  IF /\ Cardinality(points) <= 1
           /\ \A i \in DOMAIN digits : digits[i] = "." \/ is_digit(digits[i])
           /\ Len(whole) + Len(fraction) > 0
        THEN Some(Ratio(sign * (DigitsValue(whole) * Pow10(Len(fraction)) + DigitsValue(fraction)),
                        Pow10(Len(fraction))))
        ELSE None

(***************************************************************************)
(* Token and Error of scanner/token.rs, and the keywords.                  *)
(***************************************************************************)
Token_new(token_type, lexeme, literal, line) ==
    [token_type |-> token_type, lexeme |-> lexeme, literal |-> literal, line |-> line]

Error(line, message) == [line |-> line, message |-> message]
Error_fmt(error) == "[line " \o ToString(error.line) \o "] Error: " \o error.message

keywords ==
    [text \in {"and", "class", "else", "false", "for", "fun", "if", "nil", "or",
               "print", "return", "super", "this", "true", "var", "while"} |->
        CASE text = "and" -> "And" [] text = "class" -> "Class"
          [] text = "else" -> "Else" [] text = "false" -> "False"
          [] text = "for" -> "For" [] text = "fun" -> "Fun"
          [] text = "if" -> "If" [] text = "nil" -> "Nil"
          [] text = "or" -> "Or" [] text = "print" -> "Print"
          [] text = "return" -> "Return" [] text = "super" -> "Super"
          [] text = "this" -> "This" [] text = "true" -> "True"
          [] text = "var" -> "Var" [] text = "while" -> "While"]

(***************************************************************************)
(* The Scanner.  A method that takes &mut self is an operator from the     *)
(* Scanner to the Scanner it leaves; a method that panics leaves Panic.    *)
(***************************************************************************)
Panic == [t |-> "Panic"]

Scanner_new(source) ==
    [t |-> "Scanner", source |-> source, tokens |-> <<>>, start |-> 0,
     current |-> 0, line |-> 1, errors |-> <<>>]

is_at_end(s) == s.current >= len(s.source)

advance(s) == [s EXCEPT !.current = @ + 1]
\* the char that advance returns
advanced(s) == nth(s.source, s.current)

add_token(s, token_type, literal) ==
    [s EXCEPT !.tokens = Append(@,
        Token_new(token_type,
                  collect(skip_take(s.source, s.start, s.current - s.start)),
                  literal, s.line))]

peek(s) ==
    IF is_at_end(s) THEN "\n"
    ELSE LET c == nth(s.source, s.current) IN IF c = None THEN "\n" ELSE c.v

peek_next(s) ==
    IF s.current + 1 >= len(s.source) THEN "\n"
    ELSE LET c == nth(s.source, s.current + 1) IN IF c = None THEN "\n" ELSE c.v

\* next_char_match returns whether it matched and leaves the Scanner; the
\* unwrap panics where no char is left before the last byte
next_char_matches(s, expected) ==
    ~is_at_end(s) /\ nth(s.source, s.current) = Some(expected)
next_char_match(s, expected) ==
    IF is_at_end(s) THEN s
    ELSE IF nth(s.source, s.current) = None THEN Panic
    ELSE IF nth(s.source, s.current).v # expected THEN s
    ELSE [s EXCEPT !.current = @ + 1]

RECURSIVE identifier_loop(_)
identifier_loop(s) ==
    IF is_alphanumeric(peek(s)) \/ peek(s) = "_" THEN identifier_loop(advance(s)) ELSE s

identifier(s0) ==
    LET s == identifier_loop(s0)
        text == slice(s.source, s.start, s.current)
    IN  IF text = None THEN Panic
        ELSE IF collect(text.v) \in DOMAIN keywords
             THEN add_token(s, keywords[collect(text.v)], None)
             ELSE add_token(s, "Identifier", None)

RECURSIVE string_loop(_)
string_loop(s) ==
    IF peek(s) # "\"" /\ ~is_at_end(s)
    THEN string_loop(advance(IF peek(s) = "\n" THEN [s EXCEPT !.line = @ + 1] ELSE s))
    ELSE s

\* the lexeme with its quotes
string_lexeme(s) == skip_take(s.source, s.start, s.current - s.start)

\* the chars between the quotes
string_literal(s) == skip_take(s.source, s.start + 1, s.current - s.start - 2)

string(s0) ==
    LET s == string_loop(s0)
    IN  IF is_at_end(s)
        THEN [s EXCEPT !.errors = Append(@, Error(s.line, "Unterminated string."))]
        ELSE LET closed == advance(s)
             IN  add_token(closed, "String", Some(collect(string_literal(closed))))

RECURSIVE digits_loop(_)
digits_loop(s) == IF is_digit(peek(s)) THEN digits_loop(advance(s)) ELSE s

\* f64::to_string
f64_to_string(float) == Display(float)
contains_point(float) == float.d # 1

number(s0) ==
    LET whole == digits_loop(s0)
        s == IF peek(whole) = "." /\ is_digit(peek_next(whole))
             THEN digits_loop(advance(whole))
             ELSE whole
        literal == slice(s.source, s.start, s.current)
    IN  IF literal = None THEN Panic
        ELSE LET float == parse_f64(literal.v)
             IN  IF float = None THEN Panic
                 ELSE add_token(s, "Number",
                        Some(IF contains_point(float.v)
                             THEN f64_to_string(float.v)
                             ELSE f64_to_string(float.v) \o ".0"))

RECURSIVE comment_loop(_)
comment_loop(s) ==
    IF ~is_at_end(s) /\ peek(s) # "\n" THEN comment_loop(advance(s)) ELSE s

\* the arms of scan_token that add one token whatever follows
SingleChar(c) ==
    CASE c = "(" -> "LeftParen" [] c = ")" -> "RightParen"
      [] c = "{" -> "LeftBrace" [] c = "}" -> "RightBrace"
      [] c = "," -> "Comma" [] c = "." -> "Dot"
      [] c = "-" -> "Minus" [] c = "+" -> "Plus"
      [] c = ";" -> "Semicolon" [] c = "*" -> "Star"

\* the arms that look for a following '='
WithEqual(c) ==
    CASE c = "!" -> "BangEqual" [] c = "=" -> "EqualEqual"
      [] c = "<" -> "LessEqual" [] c = ">" -> "GreaterEqual"
WithoutEqual(c) ==
    CASE c = "!" -> "Bang" [] c = "=" -> "Equal"
      [] c = "<" -> "Less" [] c = ">" -> "Greater"

\* the chars that no arm of scan_token but the last one takes
Unexpected(c) ==
    /\ c \notin {"(", ")", "{", "}", ",", ".", "-", "+", ";", "*"}
    /\ c \notin {" ", "\r", "\t", "\n", "/", "!", "=", "<", ">", "\""}
    /\ ~is_digit(c) /\ ~is_alphabetic(c) /\ c # "_"

scan_token(s0) ==
    LET s == advance(s0)
        c == advanced(s0)
    IN  IF c = None THEN s
        ELSE CASE c.v \in {"(", ")", "{", "}", ",", ".", "-", "+", ";", "*"} ->
                    add_token(s, SingleChar(c.v), None)
               [] c.v \in {" ", "\r", "\t"} -> s
               [] c.v = "\n" -> [s EXCEPT !.line = @ + 1]
               [] c.v = "/" ->
                    LET m == next_char_match(s, "/")
                    IN  IF m = Panic THEN Panic
                        ELSE IF next_char_matches(s, "/") THEN comment_loop(m)
                        ELSE add_token(m, "Slash", None)
               [] c.v \in {"!", "=", "<", ">"} ->
                    LET m == next_char_match(s, "=")
                    IN  IF m = Panic THEN Panic
                        ELSE IF next_char_matches(s, "=")
                             THEN add_token(m, WithEqual(c.v), None)
                             ELSE add_token(m, WithoutEqual(c.v), None)
               [] c.v = "\"" -> string(s)
               [] is_digit(c.v) -> number(s)
               [] is_alphabetic(c.v) \/ c.v = "_" -> identifier(s)
               [] OTHER ->
                    [s EXCEPT !.errors =
                        Append(@, Error(s.line, "Unexpected character: " \o c.v))]

(***************************************************************************)
(* scan_tokens, one turn of its loop at a time.                            *)
(***************************************************************************)
Scanning == [tag |-> "scan_tokens"]
\* scan_tokens has returned (&tokens, &errors)
Scanned == [tag |-> "scanned"]

ScanToken ==
    /\ ctl = Scanning
    /\ ~is_at_end(scanner)
    /\ LET s == scan_token([scanner EXCEPT !.start = scanner.current])
       IN  IF s = Panic
           THEN ctl' = Panicked /\ UNCHANGED scanner
           ELSE scanner' = s /\ UNCHANGED ctl
    /\ UNCHANGED <<parser, prog, stack, envs, out, ret, proc>>

ScanEof ==
    /\ ctl = Scanning
    /\ is_at_end(scanner)
    /\ scanner' = [scanner EXCEPT !.tokens = Append(@, Token_new("Eof", "", None, scanner.line))]
    /\ ctl' = Scanned
    /\ UNCHANGED <<parser, prog, stack, envs, out, ret, proc>>

\* the chars of the scanned texts: a letter, a digit, a char no token starts
\* with, the quote, the line feed, a letter of two bytes and a sign of two
\* bytes that is no letter
SourceChars == {"a", "1", "@", "\"", "\n", "é", "§"}
Sources == SeqsUpTo(SourceChars, MaxSource)

ScanInit ==
    /\ scanner \in {Scanner_new(source) : source \in Sources}
    /\ ctl = Scanning
    /\ prog = <<>>
    /\ stack = <<>>
    /\ envs = NewHeap
    /\ out = <<>>
    /\ ret = [op |-> "new", env |-> Global]
    /\ parser = NoParser
    /\ proc = Running

ScanNext == ScanToken \/ ScanEof

ScanSpec == ScanInit /\ [][ScanNext]_vars

(***************************************************************************)
(* What the scanner is required to do.                                     *)
(***************************************************************************)
\* scan_tokens from the Scanner s on, as one function: the Scanner it leaves
\* when it returns, or Panic
RECURSIVE scan_tokens(_)
scan_tokens(s) ==
    IF s = Panic THEN Panic
    ELSE IF is_at_end(s)
         THEN [s EXCEPT !.tokens = Append(@, Token_new("Eof", "", None, s.line))]
         ELSE scan_tokens(scan_token([s EXCEPT !.start = s.current]))

Eofs(tokens) == {i \in DOMAIN tokens : tokens[i].token_type = "Eof"}

\* C18: for every source text scan_tokens comes to its end, it does not
\* abort, and the tokens it returns hold exactly one Eof token, the last one.
C18_ScanEndsWithOneEof ==
    /\ ctl # Panicked
    /\ ctl = Scanning => Eofs(scanner.tokens) = {}
    /\ ctl = Scanned => Eofs(scanner.tokens) = {Len(scanner.tokens)}

\* the next turn of the loop reads a char that no token starts with
AtUnexpected ==
    /\ ctl = Scanning
    /\ ~is_at_end(scanner)
    /\ advanced(scanner) # None
    /\ Unexpected(advanced(scanner).v)

\* C19: a char that no token starts with adds exactly one error with the
\* current line and no token, and the scan goes on as if a blank stood in its
\* place: the tokens and the other errors are the same, and Eof is the last
\* token.
C19_UnexpectedCharSkipped ==
    AtUnexpected =>
        LET c == advanced(scanner).v
            blank == [scanner EXCEPT !.source[scanner.current + 1] = " "]
            with == scan_tokens(scanner)
            without == scan_tokens(blank)
            known == Len(scanner.errors)
        IN  /\ with # Panic
            /\ without # Panic
            /\ with.tokens = without.tokens
            /\ with.tokens[Len(with.tokens)].token_type = "Eof"
            /\ with.errors =
                   Append(scanner.errors, Error(scanner.line, "Unexpected character: " \o c))
                   \o SubSeq(without.errors, known + 1, Len(without.errors))

Newlines(chars) == Cardinality({i \in DOMAIN chars : chars[i] = "\n"})

\* the next turn of the loop reads an opening quote
AtString ==
    /\ ctl = Scanning
    /\ ~is_at_end(scanner)
    /\ advanced(scanner) = Some("\"")

\* the turn that scans a string: with a closing quote it adds one String
\* token whose literal is the chars between the quotes, without one it adds
\* one error and no token; the line grows by one for each line feed inside
\* (and, in a string that nothing closes, once more for each char that peek
\* looks for past the last one)
StringStep ==
    AtString =>
        LET after == SubSeq(scanner.source, scanner.current + 2, Len(scanner.source))
            quotes == {i \in DOMAIN after : after[i] = "\""}
        IN  IF quotes = {}
            THEN /\ ctl' = Scanning
                 /\ scanner'.tokens = scanner.tokens
                 /\ scanner'.errors =
                        Append(scanner.errors, Error(scanner'.line, "Unterminated string."))
                 /\ scanner'.line >= scanner.line + Newlines(after)
            ELSE LET closing == CHOOSE i \in quotes : \A j \in quotes : i <= j
                     inside == SubSeq(after, 1, closing - 1)
                 IN  /\ ctl' = Scanning
                     /\ scanner'.errors = scanner.errors
                     /\ scanner'.line = scanner.line + Newlines(inside)
                     /\ scanner'.tokens =
                            Append(scanner.tokens,
                                   Token_new("String", "\"" \o collect(inside) \o "\"",
                                             Some(collect(inside)), scanner'.line))

Strings(tokens) == {i \in DOMAIN tokens : tokens[i].token_type = "String"}
Unterminated(errors) == {i \in DOMAIN errors : errors[i].message = "Unterminated string."}

chars(text) == [i \in 1..Len(text) |-> SubSeq(text, i, i)]

\* the token types that identifier() gives
Words == {"Identifier"} \cup {keywords[text] : text \in DOMAIN keywords}

\* the type that the chars of a lexeme call for
Classified(lexeme) ==
    IF lexeme \in DOMAIN keywords THEN keywords[lexeme] ELSE "Identifier"

\* the literal that the digits of a lexeme call for
NumberLiteral(lexeme) ==
    LET float == parse_f64(chars(lexeme))
    IN  IF float = None THEN None
        ELSE Some(IF contains_point(float.v) THEN f64_to_string(float.v)
                  ELSE f64_to_string(float.v) \o ".0")

\* C29: for source text with chars of several bytes scan_tokens does not
\* abort, each identifier or keyword token has the type that the chars of
\* its own lexeme call for, and each Number token has the literal of its own
\* digits.
C29_CursorConsistent ==
    /\ ctl # Panicked
    /\ \A i \in DOMAIN scanner.tokens :
          LET token == scanner.tokens[i]
          IN  /\ token.token_type \in Words =>
                    token.token_type = Classified(token.lexeme)
              /\ token.token_type = "Number" =>
                    token.literal = NumberLiteral(token.lexeme)

(***************************************************************************)
(* The Parser.  A method is an operator from the Parser p to the pair of   *)
(* the Parser it leaves and the Result it returns.                         *)
(***************************************************************************)
ParseError_new(message, line) == [message |-> message, line |-> line]
ParseError_fmt(error) == "[line " \o ToString(error.line) \o "] Error: " \o error.message

Parser_new(tokens) == [tokens |-> tokens, current |-> 0]

Parser_peek(p) == p.tokens[p.current + 1]
\* previous that looks one token too far back
previous_back(p) == IF p.current <= 1 THEN Panic ELSE p.tokens[p.current - 1]

\* &self.tokens[self.current - 1] panics while current is 0: the subtraction
\* overflows, or the index is out of bounds
previous(p) == IF p.current = 0 THEN Panic ELSE p.tokens[p.current]
Parser_is_at_end(p) == Parser_peek(p).token_type = "Eof"
Parser_advance(p) == IF ~Parser_is_at_end(p) THEN [p EXCEPT !.current = @ + 1] ELSE p
check(p, token_type) == ~Parser_is_at_end(p) /\ Parser_peek(p).token_type = token_type

\* matches returns whether one of the types is the type of the next token
\* and leaves the Parser past that token
matched(p, types) == \E token_type \in types : check(p, token_type)
matches(p, types) == IF matched(p, types) THEN Parser_advance(p) ELSE p

\* what follows a call of previous() on the Parser q: the panic, or x
Checked(q, x) == IF previous(q) = Panic THEN [p |-> q, r |-> Panic] ELSE x

\* consume that reports the line of the token before the cursor
consume_at_previous(p, token_type, message) ==
    IF check(p, token_type)
    THEN Checked(Parser_advance(p),
                 [p |-> Parser_advance(p), r |-> Ok(previous(Parser_advance(p)))])
    ELSE [p |-> p,
          r |-> Err(ParseError_new(message,
                    IF p.current = 0 THEN 0 ELSE p.tokens[p.current].line))]

consume(p, token_type, message) ==
    IF check(p, token_type)
    THEN Checked(Parser_advance(p),
                 [p |-> Parser_advance(p), r |-> Ok(previous(Parser_advance(p)))])
    ELSE [p |-> p, r |-> Err(ParseError_new(message, Parser_peek(p).line))]


convert_token_literal(token) ==
    CASE token.token_type = "False" -> Ok(Literal_Bool(FALSE))
      [] token.token_type = "True" -> Ok(Literal_Bool(TRUE))
      [] token.token_type = "Nil" -> Ok(Literal_Nil)
      [] token.token_type = "Number" ->
            IF token.literal = None THEN Err(ParseError_new("Expect number.", token.line))
            ELSE LET value == parse_f64(chars(token.literal.v))
                 IN  IF value = None
                     THEN Err(ParseError_new("Expect number.", token.line))
                     ELSE Ok([Literal_Number(value.v.n) EXCEPT !.d = value.v.d])
      [] token.token_type = "String" ->
            IF token.literal = None THEN Err(ParseError_new("Expect string.", token.line))
            ELSE Ok(Literal_String(token.literal.v))
      [] OTHER -> Err(ParseError_new("Expect literal.", token.line))

\* the ? operator: the pair x ends the method that received it
Failed(x) == x.r.t # "Ok"

\* the one element of a set of one element; { body : x \in {e} } is body
\* with the value of e for x, e being evaluated once
Only(S) == CHOOSE x \in S : TRUE

\* a method calls a method through call, which names the method called
RECURSIVE call(_, _)
RECURSIVE block_statements(_, _), or_loop(_, _), and_loop(_, _), equality_loop(_, _)
RECURSIVE comparison_loop(_, _), term_loop(_, _), factor_loop(_, _)


literal(p) ==
    IF matched(p, {"False", "True", "Nil", "Number", "String"})
    THEN LET q == matches(p, {"False", "True", "Nil", "Number", "String"})
             lit == convert_token_literal(previous(q))
         IN  Checked(q, [p |-> q,
                         r |-> IF lit.t = "Ok" THEN Ok(Expr_Literal(lit.v)) ELSE lit])
    ELSE [p |-> p, r |-> Err(ParseError_new("Expect expression.", Parser_peek(p).line))]

\* consume(token_type, message)? after the call that returned x, then Ok(value)
Closed(x, token_type, message, value) ==
    LET token == consume(x.p, token_type, message)
    IN  IF Failed(token) THEN token ELSE [p |-> token.p, r |-> Ok(value)]

primary(p) ==
    IF matched(p, {"LeftParen"})
    THEN Only({ IF Failed(expr) THEN expr
                ELSE Closed(expr, "RightParen", "Expect ')' after expression.",
                            Expr_Grouping(expr.r.v)) :
                expr \in {call("expression", matches(p, {"LeftParen"}))} })
    ELSE IF matched(p, {"Identifier"})
    THEN LET q == matches(p, {"Identifier"})
         IN  Checked(q, [p |-> q, r |-> Ok(Expr_Variable(previous(q)))])
    ELSE call("literal", p)

Parser_unary(p) ==
    IF matched(p, {"Bang", "Minus"})
    THEN LET q == matches(p, {"Bang", "Minus"})
         IN  Checked(q, Only({ IF Failed(right) THEN right
                               ELSE [p |-> right.p, r |-> Ok(Expr_Unary(previous(q), right.r.v))] :
                               right \in {call("Parser_unary", q)} }))
    ELSE call("primary", p)

factor_loop(p, expr) ==
    IF matched(p, {"Slash", "Star"})
    THEN LET q == matches(p, {"Slash", "Star"})
         IN  Checked(q, Only({ IF Failed(right) THEN right
                               ELSE factor_loop(right.p, Expr_Binary(expr, previous(q), right.r.v)) :
                               right \in {call("Parser_unary", q)} }))
    ELSE [p |-> p, r |-> Ok(expr)]

factor(p) ==
    Only({ IF Failed(expr) THEN expr ELSE factor_loop(expr.p, expr.r.v) :
           expr \in {call("Parser_unary", p)} })

\* the loop of term with a whole term for right operand: it folds to the right
term_loop_right(p, expr) ==
    IF matched(p, {"Minus", "Plus"})
    THEN LET q == matches(p, {"Minus", "Plus"})
         IN  Checked(q, Only({ IF Failed(right) THEN right
                               ELSE [p |-> right.p,
                                     r |-> Ok(Expr_Binary(expr, previous(q), right.r.v))] :
                               right \in {call("term", q)} }))
    ELSE [p |-> p, r |-> Ok(expr)]

term_loop(p, expr) ==
    IF matched(p, {"Minus", "Plus"})
    THEN LET q == matches(p, {"Minus", "Plus"})
         IN  Checked(q, Only({ IF Failed(right) THEN right
                               ELSE term_loop(right.p, Expr_Binary(expr, previous(q), right.r.v)) :
                               right \in {call("factor", q)} }))
    ELSE [p |-> p, r |-> Ok(expr)]

term(p) ==
    Only({ IF Failed(expr) THEN expr ELSE term_loop(expr.p, expr.r.v) :
           expr \in {call("factor", p)} })

comparison_loop(p, expr) ==
    IF matched(p, {"Greater", "GreaterEqual", "Less", "LessEqual"})
    THEN LET q == matches(p, {"Greater", "GreaterEqual", "Less", "LessEqual"})
         IN  Checked(q, Only({ IF Failed(right) THEN right
                               ELSE comparison_loop(right.p,
                                                    Expr_Binary(expr, previous(q), right.r.v)) :
                               right \in {call("term", q)} }))
    ELSE [p |-> p, r |-> Ok(expr)]

comparison(p) ==
    Only({ IF Failed(expr) THEN expr ELSE comparison_loop(expr.p, expr.r.v) :
           expr \in {call("term", p)} })

equality_loop(p, expr) ==
    IF matched(p, {"BangEqual", "EqualEqual"})
    THEN LET q == matches(p, {"BangEqual", "EqualEqual"})
         IN  Checked(q, Only({ IF Failed(right) THEN right
                               ELSE equality_loop(right.p, Expr_Binary(expr, previous(q), right.r.v)) :
                               right \in {call("comparison", q)} }))
    ELSE [p |-> p, r |-> Ok(expr)]

equality(p) ==
    Only({ IF Failed(expr) THEN expr ELSE equality_loop(expr.p, expr.r.v) :
           expr \in {call("comparison", p)} })

and_loop(p, expr) ==
    IF matched(p, {"And"})
    THEN LET q == matches(p, {"And"})
         IN  Checked(q, Only({ IF Failed(right) THEN right
                               ELSE and_loop(right.p, Expr_Logical(expr, previous(q), right.r.v)) :
                               right \in {call("equality", q)} }))
    ELSE [p |-> p, r |-> Ok(expr)]

and(p) ==
    Only({ IF Failed(expr) THEN expr ELSE and_loop(expr.p, expr.r.v) :
           expr \in {call("equality", p)} })

or_loop(p, expr) ==
    IF matched(p, {"Or"})
    THEN LET q == matches(p, {"Or"})
         IN  Checked(q, Only({ IF Failed(right) THEN right
                               ELSE or_loop(right.p, Expr_Logical(expr, previous(q), right.r.v)) :
                               right \in {call("and", q)} }))
    ELSE [p |-> p, r |-> Ok(expr)]

or(p) ==
    Only({ IF Failed(expr) THEN expr ELSE or_loop(expr.p, expr.r.v) :
           expr \in {call("and", p)} })

\* an assignment that takes a variable in parentheses for a target
assignment_grouped(p) ==
    Only({ IF Failed(expr) THEN expr
           ELSE IF matched(expr.p, {"Equal"})
           THEN LET q == matches(expr.p, {"Equal"})
                    equals == previous(q)
                    target == IF expr.r.v.t = "Grouping" THEN expr.r.v.expr ELSE expr.r.v
                IN  Checked(q,
                        Only({ IF Failed(value) THEN value
                               ELSE IF target.t = "Variable"
                               THEN [p |-> value.p,
                                     r |-> Ok(Expr_Assign(target.name, value.r.v))]
                               ELSE [p |-> value.p,
                                     r |-> Err(ParseError_new("Invalid assignment target.",
                                                              equals.line))] :
                               value \in {call("assignment", q)} }))
           ELSE expr :
           expr \in {call("or", p)} })

assignment(p) ==
    Only({ IF Failed(expr) THEN expr
           ELSE IF matched(expr.p, {"Equal"})
           THEN LET q == matches(expr.p, {"Equal"})
                    equals == previous(q)
                IN  Checked(q,
                        Only({ IF Failed(value) THEN value
                               ELSE IF expr.r.v.t = "Variable"
                               THEN [p |-> value.p,
                                     r |-> Ok(Expr_Assign(expr.r.v.name, value.r.v))]
                               ELSE [p |-> value.p,
                                     r |-> Err(ParseError_new("Invalid assignment target.",
                                                              equals.line))] :
                               value \in {call("assignment", q)} }))
           ELSE expr :
           expr \in {call("or", p)} })

expression(p) == call("assignment", p)

expression_stmt(p) ==
    Only({ IF Failed(expr) THEN expr
           ELSE IF ~Parser_is_at_end(expr.p)
           THEN Closed(expr, "Semicolon", "Expect ';' after expression.",
                       Stmt_Expression(expr.r.v))
           ELSE [p |-> expr.p, r |-> Ok(Stmt_Expression(expr.r.v))] :
           expr \in {call("expression", p)} })

print_statement(p) ==
    Only({ IF Failed(value) THEN value
           ELSE Closed(value, "Semicolon", "Expect ';' after value.", Stmt_Print(value.r.v)) :
           value \in {call("expression", p)} })

\* Some(x?) of an optional clause
Optional(x) == IF Failed(x) THEN x ELSE [p |-> x.p, r |-> Ok(Some(x.r.v))]

var_declaration(p) ==
    LET name == consume(p, "Identifier", "Expect variable name.")
    IN  IF Failed(name) THEN name
        ELSE Only({ IF Failed(initializer) THEN initializer
                    ELSE Closed(initializer, "Semicolon", "Expect ';' after value.",
                                Stmt_Var(name.r.v, initializer.r.v)) :
                    initializer \in
                        {IF matched(name.p, {"Equal"})
                         THEN Only({ Optional(expr) :
                                     expr \in {call("expression", matches(name.p, {"Equal"}))} })
                         ELSE [p |-> name.p, r |-> Ok(None)]} })

\* the while loop of block, with the statements pushed so far
block_statements(p, statements) ==
    IF ~check(p, "RightBrace") /\ ~Parser_is_at_end(p)
    THEN Only({ IF Failed(stmt) THEN stmt
                ELSE block_statements(stmt.p, Append(statements, stmt.r.v)) :
                stmt \in {call("declaration", p)} })
    ELSE [p |-> p, r |-> Ok(statements)]

block(p) ==
    Only({ IF Failed(statements) THEN statements
           ELSE Closed(statements, "RightBrace", "Expect '}' after block.", statements.r.v) :
           statements \in {block_statements(p, <<>>)} })

\* the else clause of if_statement
else_statement(p) ==
    IF matched(p, {"Else"})
    THEN Only({ Optional(stmt) : stmt \in {call("statement", matches(p, {"Else"}))} })
    ELSE [p |-> p, r |-> Ok(None)]

if_statement(p) ==
    LET left == consume(p, "LeftParen", "Expect '(' after 'if'.")
    IN  IF Failed(left) THEN left
        ELSE Only({
            IF Failed(condition) THEN condition
            ELSE LET right == consume(condition.p, "RightParen", "Expect ')' after 'if'.")
                 IN  IF Failed(right) THEN right
                     ELSE Only({
                         IF Failed(then_branch) THEN then_branch
                         ELSE Only({
                             IF Failed(else_branch) THEN else_branch
                             ELSE [p |-> else_branch.p,
                                   r |-> Ok(Stmt_If(condition.r.v, then_branch.r.v,
                                                    else_branch.r.v))] :
                             else_branch \in {else_statement(then_branch.p)} }) :
                         then_branch \in {call("statement", right.p)} }) :
            condition \in {call("expression", left.p)} })

while_statement(p) ==
    LET left == consume(p, "LeftParen", "Expect '(' after 'while'.")
    IN  IF Failed(left) THEN left
        ELSE Only({
            IF Failed(condition) THEN condition
            ELSE LET right == consume(condition.p, "RightParen", "Expect ')' after 'while'.")
                 IN  IF Failed(right) THEN right
                     ELSE Only({
                         IF Failed(body) THEN body
                         ELSE [p |-> body.p,
                               r |-> Ok(Stmt_While(condition.r.v, body.r.v))] :
                         body \in {call("statement", right.p)} }) :
            condition \in {call("expression", left.p)} })

\* the three clauses of for_statement
for_initializer(p) ==
    IF matched(p, {"Semicolon"}) THEN [p |-> matches(p, {"Semicolon"}), r |-> Ok(None)]
    ELSE Only({ Optional(stmt) :
                stmt \in {IF matched(p, {"Var"})
                          THEN call("var_declaration", matches(p, {"Var"}))
                          ELSE call("expression_stmt", p)} })

for_condition_clause(p) ==
    IF ~check(p, "Semicolon")
    THEN Only({ Optional(expr) : expr \in {call("expression", p)} })
    ELSE [p |-> p, r |-> Ok(Some(Expr_Literal(Literal_Bool(TRUE))))]

for_increment(p) ==
    IF ~check(p, "RightParen")
    THEN Only({ Optional(expr) : expr \in {call("expression", p)} })
    ELSE [p |-> p, r |-> Ok(None)]

for_statement(p) ==
    LET left == consume(p, "LeftParen", "Expect '(' after 'for'.")
    IN  IF Failed(left) THEN left
        ELSE Only({
            IF Failed(initializer) THEN initializer
            ELSE Only({
                IF Failed(condition) THEN condition
                ELSE LET semicolon == consume(condition.p, "Semicolon",
                                              "Expect ';' after loop condition")
                     IN  IF Failed(semicolon) THEN semicolon
                         ELSE Only({
                             IF Failed(increment) THEN increment
                             ELSE LET right == consume(increment.p, "RightParen",
                                                       "Expect ')' after for clauses.")
                                  IN  IF Failed(right) THEN right
                                      ELSE Only({
                                          IF Failed(body) THEN body
                                          ELSE [p |-> body.p,
                                                r |-> Ok(Stmt_For(initializer.r.v,
                                                                  condition.r.v,
                                                                  increment.r.v,
                                                                  body.r.v))] :
                                          body \in {call("statement", right.p)} }) :
                             increment \in {for_increment(semicolon.p)} }) :
                condition \in {for_condition_clause(initializer.p)} }) :
            initializer \in {for_initializer(left.p)} })

statement(p) ==
    IF matched(p, {"Print"}) THEN call("print_statement", matches(p, {"Print"}))
    ELSE IF matched(p, {"LeftBrace"})
    THEN Only({ IF Failed(stmts) THEN stmts
                ELSE [p |-> stmts.p, r |-> Ok(Stmt_Block(stmts.r.v))] :
                stmts \in {call("block", matches(p, {"LeftBrace"}))} })
    ELSE IF matched(p, {"If"}) THEN call("if_statement", matches(p, {"If"}))
    ELSE IF matched(p, {"While"}) THEN call("while_statement", matches(p, {"While"}))
    ELSE IF matched(p, {"For"}) THEN call("for_statement", matches(p, {"For"}))
    ELSE call("expression_stmt", p)

declaration(p) ==
    IF matched(p, {"Var"}) THEN call("var_declaration", matches(p, {"Var"}))
    ELSE call("statement", p)

call(method, p) ==
    CASE method = "declaration" -> declaration(p)
      [] method = "var_declaration" -> var_declaration(p)
      [] method = "statement" -> statement(p)
      [] method = "print_statement" -> print_statement(p)
      [] method = "block" -> block(p)
      [] method = "if_statement" -> if_statement(p)
      [] method = "while_statement" -> while_statement(p)
      [] method = "for_statement" -> for_statement(p)
      [] method = "expression_stmt" -> expression_stmt(p)
      [] method = "expression" -> expression(p)
      [] method = "assignment" -> assignment(p)
      [] method = "or" -> or(p)
      [] method = "and" -> and(p)
      [] method = "equality" -> equality(p)
      [] method = "comparison" -> comparison(p)
      [] method = "term" -> term(p)
      [] method = "factor" -> factor(p)
      [] method = "Parser_unary" -> Parser_unary(p)
      [] method = "primary" -> primary(p)
      [] method = "literal" -> literal(p)

\* the while loop of parse, with the statements pushed so far
RECURSIVE parse_statements(_, _)
parse_statements(p, statements) ==
    IF ~Parser_is_at_end(p)
    THEN Only({ IF Failed(stmt) THEN stmt
                ELSE parse_statements(stmt.p, Append(statements, stmt.r.v)) :
                stmt \in {call("declaration", p)} })
    ELSE [p |-> p, r |-> Ok(statements)]

parse(p) == parse_statements(p, <<>>)

(***************************************************************************)
(* The run command of main: scan the file, parse the tokens, interpret the *)
(* statements, exit.                                                       *)
(***************************************************************************)
\* the process has ended
Exited == [tag |-> "exit"]
exit(code) == Some(code)

\* the lines a file is made of: statements that run, one that fails when it
\* runs, one that does not parse, a char no token starts with and a string
\* that nothing closes
Lines == {"print 1;", "print -2;", "print -\"a\";", "print ;", "@", "\"a"}

RECURSIVE Joined(_)
Joined(lines) == IF lines = <<>> THEN "" ELSE Head(lines) \o "\n" \o Joined(Tail(lines))

Files == {chars(Joined(lines)) : lines \in SeqsUpTo(Lines, MaxLines)}

\* the files of one print statement over an expression: the operands 1, 2,
\* .. in this order with a binary operator between two of them, as they are
\* or with the first two or the last two operands in parentheses or with
\* the first operand negated; and a - b - c
Operators == {"+", "-", "*", "/", "<", "==", "and", "or"}
Shapes == {"plain", "first", "last", "negated"}

Operand(i, n, shape) ==
    (IF shape = "negated" /\ i = 1 THEN "-" ELSE "")
    \o (IF (shape = "first" /\ i = 1) \/ (shape = "last" /\ i = n - 1) THEN "(" ELSE "")
    \o ToString(i)
    \o (IF (shape = "first" /\ i = 2) \/ (shape = "last" /\ i = n) THEN ")" ELSE "")

RECURSIVE Operation(_, _, _)
Operation(ops, n, shape) ==
    IF ops = <<>> THEN Operand(1, n, shape)
    ELSE Operation(SubSeq(ops, 1, Len(ops) - 1), n, shape)
            \o " " \o ops[Len(ops)] \o " " \o Operand(Len(ops) + 1, n, shape)

Expressions ==
    {Operation(ops, Len(ops) + 1, shape) :
        ops \in SeqsUpTo(Operators, MaxOps) \ {<<>>}, shape \in Shapes}
    \cup {"a - b - c"}

ExprFiles == {chars("print " \o text \o ";") : text \in Expressions}

RunInit ==
    /\ scanner \in {Scanner_new(file_contents) : file_contents \in Files \cup ExprFiles}
    /\ ctl = Scanning
    /\ prog = <<>>
    /\ stack = <<>>
    /\ envs = NewHeap
    /\ out = <<>>
    /\ ret = [op |-> "new", env |-> Global]
    /\ parser = NoParser
    /\ proc = Running

\* let stmts = match parser.parse() { ... }; Interpreter::new()
RunParse ==
    /\ ctl = Scanned
    /\ LET parsed == parse(Parser_new(scanner.tokens))
           stmts == parsed.r
       IN  /\ parser' = parsed.p
           /\ IF stmts = Panic
              THEN /\ ctl' = Panicked
                   /\ UNCHANGED <<prog, proc>>
              ELSE IF stmts.t = "Ok"
              THEN /\ prog' = stmts.v
                   /\ ctl' = Start
                   /\ UNCHANGED proc
              ELSE /\ proc' = [stderr |-> Append(proc.stderr, ParseError_fmt(stmts.e)),
                               exit |-> exit(65)]
                   /\ ctl' = Exited
                   /\ UNCHANGED prog
    /\ UNCHANGED <<scanner, stack, envs, out, ret>>

\* the match on the result of interpreter.interpret(stmts), and the end of main
RunExit ==
    /\ ctl.tag = "finished"
    /\ proc' = IF ctl.res.t = "Err"
               THEN [stderr |-> Append(proc.stderr, RuntimeError_fmt(ctl.res.e)),
                     exit |-> exit(70)]
               ELSE [proc EXCEPT !.exit = exit(0)]
    /\ ctl' = Exited
    /\ UNCHANGED <<parser, scanner, prog, stack, envs, out, ret>>

RunNext ==
    \/ ScanToken \/ ScanEof
    \/ RunParse
    \/ InterpretStart \/ InterpretNext \/ InterpretErr
    \/ ExecPrint \/ PrintValue
    \/ EvalLiteral \/ EvalGrouping \/ EvalUnary \/ UnaryRight
    \/ EvalBinary \/ BinaryLeft \/ BinaryRight
    \/ EvalLogical \/ LogicalLeft
    \/ EvalVariable
    \/ Propagate
    \/ RunExit

RunSpec == RunInit /\ [][RunNext]_vars

(***************************************************************************)
(* What the run command is required to do.                                 *)
(***************************************************************************)
ErrorLines(errors) == [i \in DOMAIN errors |-> Error_fmt(errors[i])]

\* the scan has returned with lexical errors
LexicalErrors == ctl # Scanning /\ ctl # Panicked /\ scanner.errors # <<>>

\* the statuses of a run without lexical errors
ExitStep ==
    /\ ctl = Scanned /\ ctl' = Exited /\ scanner.errors = <<>> => proc'.exit = Some(65)
    /\ ctl.tag = "finished" /\ ctl' = Exited =>
          proc'.exit = IF ctl.res.t = "Err" THEN Some(70) ELSE Some(0)

\* C17: when the scan of the file reports lexical errors the run command
\* prints all of them to standard error and exits with status 65, and
\* neither the parser's statements nor the interpreter are run; a parse
\* error exits with 65, a runtime error with 70, a normal end with 0.
C17_LexicalErrorsStopRun ==
    /\ [][ExitStep]_vars
    /\ [](LexicalErrors =>
            /\ ctl \in {Scanned, Exited}
            /\ prog = <<>> /\ stack = <<>> /\ out = <<>>
            /\ ctl = Exited =>
                  proc = [stderr |-> ErrorLines(scanner.errors), exit |-> Some(65)])

(***************************************************************************)
(* The environments of a run form a tree.                                  *)
(***************************************************************************)
\* the scope that n steps along the enclosing links from e lead to
RECURSIVE Ancestor(_, _, _)
Ancestor(h, e, n) ==
    IF n = 0 \/ e = NoEnv THEN e ELSE Ancestor(h, h[e].enclosing, n - 1)

ClockName == Ident("clock", 0)

Bindings ==
    UNION {{envs[e].values[n] : n \in DOMAIN envs[e].values} : e \in DOMAIN envs}

\* C28: no binding of any environment holds the marker None: a declaration
\* without initializer binds nil, and declarations with initializer, function
\* declarations, parameters and assignments store Some(value); so the
\* unwrap of a variable reference never panics.
C28_BindingsPresent ==
    /\ \A binding \in Bindings : binding # None /\ binding.t = "Some"
    /\ ctl # Panicked

\* a variable declared without initializer is bound to nil, next to the
\* native function and to variables that were declared with a value and
\* then assigned
C28_Witness ==
    /\ Some(Nil) \in Bindings
    /\ Some(NativeFunction) \in Bindings
    /\ \E binding \in Bindings : binding.v.t = "Number"

(***************************************************************************)
(* The scope of a for statement.                                           *)
(***************************************************************************)
\* the frames of the for statements whose initializer declares a variable
ForFrames ==
    {j \in DOMAIN stack :
        /\ stack[j].k \in {"ForCondition", "ForBody", "ForIncrement"}
        /\ stack[j].stmt.initializer.t = "Some"
        /\ stack[j].stmt.initializer.v.t = "Var"}

\* the lines 0 .. n - 1
RECURSIVE Counted(_)
Counted(n) == IF n = 0 THEN <<>> ELSE Append(Counted(n - 1), Display(Number(n - 1)))

\* C30: a for statement opens no scope: while its loop runs, the variable
\* its initializer declares is bound in the map of the very environment the
\* for statement executes in; so the loop of the for-scope program overwrites
\* the global i, and i and j are still bound to their final value n in the
\* scope of their for statement after the loop, while j is unknown outside
\* the block.
C30_ForNoScope ==
    /\ \A j \in ForFrames :
          stack[j].stmt.initializer.v.name.lexeme \in DOMAIN envs[stack[j].env].values
    /\ \A j \in ForFrames :
          stack[j].stmt.initializer.v.name.lexeme = "i" => stack[j].env = Global
    /\ \A n \in Iters :
          prog = ProgForScope(n) /\ IsFinished =>
             /\ out = Counted(n) \o <<Display(Number(n)), Display(Number(n))>>
             /\ ctl.res = Err(UndefinedVariable(Ident("j", 6)))
             /\ envs[Global].values["i"] = Some(Number(n))

\* the for-scope program has ended after a loop that ran twice or more
C30_Witness ==
    /\ \E n \in Iters : n >= 2 /\ prog = ProgForScope(n)
    /\ IsFinished
    /\ Len(out) >= 4

(***************************************************************************)
(* The Parser on its own: Parser::new over a slice of tokens that ends     *)
(* with Eof, then parse, one iteration of its loop at a time, or           *)
(* parse_expr.                                                             *)
(***************************************************************************)
\* the text and the literal of a token of a type
Lexeme(token_type) ==
    CASE token_type = "Number" -> "1" [] token_type = "Identifier" -> "a"
      [] token_type = "Equal" -> "=" [] token_type = "Semicolon" -> ";"
      [] token_type = "LeftParen" -> "(" [] token_type = "RightParen" -> ")"
      [] token_type = "LeftBrace" -> "{" [] token_type = "RightBrace" -> "}"
      [] token_type = "Plus" -> "+" [] token_type = "Minus" -> "-"
      [] token_type = "Bang" -> "!" [] token_type = "Eof" -> ""
      [] OTHER -> CHOOSE text \in DOMAIN keywords : keywords[text] = token_type

TokenLiteral(token_type) == IF token_type = "Number" THEN Some("1.0") ELSE None

\* the tokens of the types, each on a line of its own, and Eof on the last line
TokensOf(types) ==
    [i \in 1..(Len(types) + 1) |->
        LET token_type == IF i <= Len(types) THEN types[i] ELSE "Eof"
        IN  Token_new(token_type, Lexeme(token_type), TokenLiteral(token_type), i)]

TokenTypes ==
    {"Number", "Identifier", "Equal", "Semicolon", "LeftBrace", "RightBrace", "Print",
     "Plus"}

\*  fun a() { return 1; } print a();
FunctionProgram ==
    <<"Fun", "Identifier", "LeftParen", "RightParen", "LeftBrace", "Return", "Number",
      "Semicolon", "RightBrace", "Print", "Identifier", "LeftParen", "RightParen",
      "Semicolon">>

\*  a = a = 1;   (a) = 1;   1 + 1 = a = 1   and a statement of each other kind
Phrases ==
    { FunctionProgram,
      <<"Return", "Semicolon">>,
      <<"Identifier", "Equal", "Identifier", "Equal", "Number", "Semicolon">>,
      <<"LeftParen", "Identifier", "RightParen", "Equal", "Number", "Semicolon">>,
      <<"Number", "Plus", "Number", "Equal", "Identifier", "Equal", "Number">>,
      <<"Var", "Identifier", "Equal", "Number", "Semicolon", "Var", "Identifier",
        "Semicolon">>,
      <<"If", "LeftParen", "Identifier", "RightParen", "Print", "Number", "Semicolon",
        "Else", "LeftBrace", "RightBrace">>,
      <<"While", "LeftParen", "Identifier", "RightParen", "Identifier", "Semicolon">>,
      <<"For", "LeftParen", "Var", "Identifier", "Semicolon", "Identifier", "Semicolon",
        "Identifier", "RightParen", "LeftBrace", "Number", "Semicolon", "RightBrace">>,
      <<"For", "LeftParen", "Semicolon", "Semicolon", "RightParen", "Bang", "Minus",
        "Nil", "Semicolon">>,
      <<"LeftBrace", "Identifier", "Semicolon", "Number", "Semicolon", "RightBrace",
        "Identifier", "Semicolon">>,
      <<"Print", "Number", "Plus", "Identifier", "Semicolon", "Print", "Semicolon">> }

Prefixes(types) == {SubSeq(types, 1, n) : n \in 0..Len(types)}

ParserInputs == SeqsUpTo(TokenTypes, MaxTokens) \cup UNION {Prefixes(types) : types \in Phrases}

\* parse is in its loop, with the statements pushed so far in prog
Parsing == [tag |-> "parse"]
\* the method of the Parser has returned res
Parsed(method, res) == [tag |-> "parsed", method |-> method, res |-> res]

ParseInit ==
    /\ parser \in {Parser_new(TokensOf(types)) : types \in ParserInputs}
    /\ ctl = Parsing
    /\ prog = <<>>
    /\ stack = <<>>
    /\ envs = NewHeap
    /\ out = <<>>
    /\ ret = [op |-> "new", env |-> Global]
    /\ scanner = NoScanner
    /\ proc = Running

\* statements.push(self.declaration()?)
ParseDeclaration ==
    /\ ctl = Parsing
    /\ ~Parser_is_at_end(parser)
    /\ LET stmt == declaration(parser)
       IN  /\ parser' = stmt.p
           /\ IF stmt.r = Panic THEN ctl' = Panicked /\ prog' = <<>>
              ELSE IF Failed(stmt) THEN ctl' = Parsed("parse", stmt.r) /\ prog' = <<>>
              ELSE prog' = Append(prog, stmt.r.v) /\ UNCHANGED ctl
    /\ UNCHANGED <<scanner, stack, envs, out, ret, proc>>

\* Ok(statements), once the loop of parse has ended
ParseEnd ==
    /\ ctl = Parsing
    /\ Parser_is_at_end(parser)
    /\ ctl' = Parsed("parse", Ok(prog))
    /\ UNCHANGED <<parser, scanner, proc, prog, stack, envs, out, ret>>

\* parse_expr on the Parser that Parser::new returned
ParseExpr ==
    /\ ctl = Parsing
    /\ parser.current = 0 /\ prog = <<>>
    /\ LET expr == expression(parser)
       IN  /\ parser' = expr.p
           /\ ctl' = IF expr.r = Panic THEN Panicked ELSE Parsed("parse_expr", expr.r)
    /\ UNCHANGED <<scanner, proc, prog, stack, envs, out, ret>>

ParseNext == ParseDeclaration \/ ParseEnd \/ ParseExpr

ParseSpec == ParseInit /\ [][ParseNext]_vars

(***************************************************************************)
(* What the Parser is required to do.                                      *)
(***************************************************************************)
\* parse has returned res for the tokens of the types
ParseReturned(types) ==
    /\ ctl.tag = "parsed" /\ ctl.method = "parse"
    /\ parser.tokens = TokensOf(types)

\* C23: parse turns a function declaration into a Function statement, a
\* return with or without expression into a Return statement and a call into
\* a Call expression, so the program that declares a function and calls it
\* parses without error.
C23_FunctionsParse ==
    /\ ParseReturned(FunctionProgram) =>
          /\ ctl.res.t = "Ok"
          /\ Len(ctl.res.v) = 2
          /\ ctl.res.v[1].t = "Function"
          /\ ctl.res.v[1].body[1].t = "Return"
          /\ ctl.res.v[2].t = "Print" /\ ctl.res.v[2].expr.t = "Call"
    /\ ParseReturned(<<"Return", "Semicolon">>) => ctl.res = Ok(<<Stmt_Return(None)>>)
    /\ ParseReturned(<<"Identifier", "LeftParen", "RightParen", "Semicolon">>) =>
          ctl.res.t = "Ok" /\ ctl.res.v[1].expr.t = "Call"

\* C24: an expression statement ends with ';': the statement that parse has
\* just pushed, when it is an expression statement, ends with the token ';',
\* and for an expression that is the last thing before Eof parse returns the
\* ParseError "Expect ';' after expression." at the line of Eof.
C24_SemicolonRequired ==
    /\ (ctl = Parsing /\ prog # <<>> /\ prog[Len(prog)].t = "Expression") =>
          previous(parser).token_type = "Semicolon"
    /\ ParseReturned(<<"Number">>) =>
          ctl.res = Err(ParseError_new("Expect ';' after expression.", 2))

\* the token types that satisfy the expectation a message names
Starters == {"False", "True", "Nil", "Number", "String", "LeftParen", "Identifier",
             "Bang", "Minus"}

Expectations ==
    [message \in {"Expect expression.", "Expect ')' after expression.",
                  "Expect ';' after expression.", "Expect ';' after value.",
                  "Expect variable name.", "Expect '}' after block.",
                  "Expect '(' after 'if'.", "Expect ')' after 'if'.",
                  "Expect '(' after 'while'.", "Expect ')' after 'while'.",
                  "Expect '(' after 'for'.", "Expect ';' after loop condition",
                  "Expect ')' after for clauses."} |->
        CASE message = "Expect expression." -> Starters
          [] message \in {"Expect ')' after expression.", "Expect ')' after 'if'.",
                          "Expect ')' after 'while'.",
                          "Expect ')' after for clauses."} -> {"RightParen"}
          [] message \in {"Expect ';' after expression.", "Expect ';' after value.",
                          "Expect ';' after loop condition"} -> {"Semicolon"}
          [] message = "Expect variable name." -> {"Identifier"}
          [] message = "Expect '}' after block." -> {"RightBrace"}
          [] OTHER -> {"LeftParen"}]

\* parse or parse_expr has returned a ParseError
ParseFailed == ctl.tag = "parsed" /\ ctl.res.t = "Err"

\* the error names an expectation that the token under the cursor, and on
\* the line of the error, does not meet
AtMismatch(error) ==
    /\ error.line = Parser_peek(parser).line
    /\ error.message \in DOMAIN Expectations
    /\ Parser_peek(parser).token_type \notin Expectations[error.message]

\* C25 as stated: a failed parse returns one ParseError and no statements,
\* and the error carries the message of the failed expectation and the line
\* of the token under the cursor, where the Parser stays.
C25_FirstMismatch ==
    ParseFailed => prog = <<>> /\ AtMismatch(ctl.res.e)

\* the error of an assignment to something that is no variable: it carries
\* the line of an '=' that the Parser has passed
AtInvalidTarget(error) ==
    /\ error.message = "Invalid assignment target."
    /\ error.line \in 1..parser.current
    /\ parser.tokens[error.line].token_type = "Equal"

\* C25 amended: a failed parse returns one ParseError and no statements; the
\* error carries the message of the failed expectation and the line of the
\* token under the cursor, where the Parser stays, except the error "Invalid
\* assignment target.", which carries the line of the '=' token while the
\* cursor is past the right-hand side.
C25_FirstMismatchOrTarget ==
    ParseFailed => prog = <<>> /\ (AtMismatch(ctl.res.e) \/ AtInvalidTarget(ctl.res.e))

\* parse has failed inside a block after two statements' worth of tokens
C25_Witness ==
    /\ ParseFailed /\ ctl.method = "parse"
    /\ ctl.res.e.message = "Expect '}' after block."
    /\ parser.current >= 3

\* the positions of the cursor before Eof
Cursors == 0..(Len(parser.tokens) - 2)

\* the Parser with its cursor at c
At(c) == [parser EXCEPT !.current = c]

\* the call returns without panic, with the cursor not past Eof
Returns(x) == x.r # Panic /\ x.r.t \in {"Ok", "Err"} /\ x.p.current < Len(x.p.tokens)

\* C26: parsing does not panic and ends: parse and parse_expr return a result
\* or a ParseError, previous() is not called while the cursor is 0, the cursor
\* never passes Eof, and an iteration of the loop of parse or of block, which
\* is a call of declaration with the cursor before Eof, returns an error or
\* leaves the cursor further on.
C26_PanicFree ==
    /\ ctl # Panicked
    /\ ctl.tag = "parsed" => ctl.res.t \in {"Ok", "Err"}
    /\ parser.current < Len(parser.tokens)
    /\ Len(prog) <= parser.current
    /\ ctl.tag = "parsed" /\ ctl.method = "parse" =>
          \A c \in Cursors :
             /\ Returns(expression(At(c)))
             /\ LET stmt == declaration(At(c))
                IN  Returns(stmt) /\ (Failed(stmt) \/ stmt.p.current > c)

\* parse has returned the statements of a loop that ran twice, the first of
\* them a block whose loop ran twice
C26_Witness ==
    /\ ctl.tag = "parsed" /\ ctl.method = "parse" /\ ctl.res.t = "Ok"
    /\ Len(ctl.res.v) = 2
    /\ ctl.res.v[1].t = "Block" /\ Len(ctl.res.v[1].stmts) = 2
    /\ Parser_is_at_end(parser)

\* parse_expr has returned for the tokens of the types
ParseExprReturned(types) ==
    /\ ctl.tag = "parsed" /\ ctl.method = "parse_expr"
    /\ parser.tokens = TokensOf(types)

Level(token_type) ==
    CASE token_type = "Or" -> 1
      [] token_type = "And" -> 2
      [] token_type \in {"BangEqual", "EqualEqual"} -> 3
      [] token_type \in {"Greater", "GreaterEqual", "Less", "LessEqual"} -> 4
      [] token_type \in {"Minus", "Plus"} -> 5
      [] token_type \in {"Slash", "Star"} -> 6
      [] OTHER -> 0

\* parentheses open before token i
Depth(tokens, i) ==
    Cardinality({j \in 1..(i - 1) : tokens[j].token_type = "LeftParen"})
    - Cardinality({j \in 1..(i - 1) : tokens[j].token_type = "RightParen"})

\* the binary operators outside parentheses: those that follow an operand
Binaries(tokens) ==
    {i \in 2..Len(tokens) :
        /\ Level(tokens[i].token_type) > 0
        /\ Depth(tokens, i) = 0
        /\ tokens[i - 1].token_type \in {"Number", "Identifier", "RightParen"}}

\* the tree of the tokens of an expression: it splits at the last of the
\* operators of the lowest level
RECURSIVE Tree(_)
Tree(tokens) ==
    IF Binaries(tokens) # {}
    THEN LET ops == Binaries(tokens)
             lowest == {i \in ops : \A j \in ops :
                           Level(tokens[i].token_type) <= Level(tokens[j].token_type)}
             at == CHOOSE i \in lowest : \A j \in lowest : j <= i
             left == Tree(SubSeq(tokens, 1, at - 1))
             right == Tree(SubSeq(tokens, at + 1, Len(tokens)))
         IN  IF Level(tokens[at].token_type) <= 2
             THEN Expr_Logical(left, tokens[at], right)
             ELSE Expr_Binary(left, tokens[at], right)
    ELSE IF tokens[1].token_type \in {"Bang", "Minus"}
    THEN Expr_Unary(tokens[1], Tree(Tail(tokens)))
    ELSE IF tokens[1].token_type = "LeftParen"
    THEN Expr_Grouping(Tree(SubSeq(tokens, 2, Len(tokens) - 1)))
    ELSE IF tokens[1].token_type = "Identifier" THEN Expr_Variable(tokens[1])
    ELSE Expr_Literal(convert_token_literal(tokens[1]).v)

\* the run of the file of the text has exited
Ran(text) == scanner.source = chars("print " \o text \o ";") /\ ctl = Exited

\* C21: the Parser builds the tree of the precedence levels or < and <
\* equality < comparison < term < factor < unary < primary, a chain of one
\* level folding to the left: the statement parsed from an expression file is
\* the print of the tree that splits the tokens at the last operator of the
\* lowest level outside parentheses; 1 + 2 * 3 prints 7, (1 + 2) * 3 prints
\* 9, and a - b - c is (a - b) - c.
C21_Precedence ==
    /\ (scanner.source \in ExprFiles /\ ctl.tag \notin {"scan_tokens", "scanned"}) =>
          /\ proc.exit # exit(65)
          /\ prog = <<Stmt_Print(Tree(SubSeq(scanner.tokens, 2, Len(scanner.tokens) - 2)))>>
    /\ Ran("1 + 2 * 3") => out = <<"7">>
    /\ Ran("(1 + 2) * 3") => out = <<"9">>
    /\ Ran("a - b - c") =>
          /\ prog[1].expr.left.t = "Binary" /\ prog[1].expr.right.t = "Variable"
          /\ prog[1].expr.left.left.name.lexeme = "a"
          /\ prog[1].expr.left.right.name.lexeme = "b"
          /\ prog[1].expr.right.name.lexeme = "c"

\* the run of 1 + 2 * 3 has printed 7 and exited with status 0
C21_Witness ==
    /\ Ran("1 + 2 * 3")
    /\ out = <<"7">>
    /\ proc.exit = exit(0)
    /\ prog[1].expr.right.t = "Binary"

====
